---- MODULE Spec2Model ----
(***************************************************************************)
(* A model of main_anon.py: the amount parser (parse_amount), the line     *)
(* matcher (LINE_PATTERN), the page assembler (extract_page_data), the     *)
(* document walker (extract_pdf), the formatter (format_amount) and the    *)
(* sinks (write_csv, print_data, main).                                    *)
(*                                                                         *)
(* Encoding.  A Python str is a sequence of one-character strings:         *)
(* "1.00CR" is <<"1",".","0","0","C","R">>.  A decimal.Decimal is a record *)
(* [kind, sign, digits, exp]: kind "F" is the finite number                *)
(* (-1)^sign * digits * 10^exp, where digits is the coefficient as a       *)
(* sequence of decimal digits without leading zeros (<<0>> for zero), as   *)
(* the decimal module stores it; kinds "Inf", "NaN" and "sNaN" are its     *)
(* special values (digits: the NaN payload).  Coefficients are digit       *)
(* sequences, not integers, so that no width limits them.  A function that *)
(* may raise returns [err |-> <exception name or "none">, val |-> ...].    *)
(***************************************************************************)
EXTENDS Integers, Sequences, FiniteSets, TLC

VARIABLES
    pc,          \* where the run is: which function is entered, "done", "raised"
    value,       \* parse_amount's argument
    parsed,      \* parse_amount's result
    lines,       \* the lines a page text was put together from
    text,        \* page.extract_text() of the page given to extract_page_data
    company_name, \* the label given to extract_page_data
    data,        \* extract_page_data's result
    amount,      \* format_amount's argument
    formatted,   \* format_amount's result
    file_exists, \* os.path.exists(pdf_path)
    output,      \* args.output: None or a str
    output_path, \* write_csv's argument output_path (<<>>: not called)
    raised,      \* the exception that left the run, or "none"
    pdf,         \* pdf.pages: each page's extract_text()
    opened,      \* whether pdfplumber.open was called
    page_idx,    \* the position of extract_pdf's loop in PAGES
    results,     \* extract_pdf's list of records
    warnings,    \* the warnings extract_pdf printed
    csv_rows,    \* the rows write_csv handed to csv.writer
    printed,     \* the lines print_data printed
    message,     \* main's own message
    exit_code    \* main's return value (-1: not returned)

vars == <<pc, value, parsed, lines, text, company_name, data, amount, formatted, file_exists,
          output, output_path, raised, pdf, opened, page_idx, results, warnings, csv_rows, printed,
          message, exit_code>>

(***************************************************************************)
(* Characters and strings                                                  *)
(***************************************************************************)

\* A character is a string of one element; a character beyond U+00FF is
\* written as Python writes it, a backslash and u or U with the code point,
\* and the character U+0000 as a backslash and x00.

\* str.isspace(), which str.strip(), the pattern class \s and the decimal
\* module's constructor all use: the ASCII white space with U+000B and
\* U+001C to U+001F, U+0085, U+00A0, and the white space beyond.
IsSpace(c) ==
    c \in {" ", "\t", "\n", "\r", "\f", "", "", "", "", "", "", " ",
           "\\u1680", "\\u2000", "\\u2001", "\\u2002", "\\u2003", "\\u2004", "\\u2005",
           "\\u2006", "\\u2007", "\\u2008", "\\u2009", "\\u200a", "\\u2028", "\\u2029",
           "\\u202f", "\\u205f", "\\u3000"}

\* The decimal digits beyond ASCII, UnicodeDigits[v + 1] those of value v.
UnicodeDigits == <<
    {
        "\\u0660", "\\u06f0", "\\u07c0", "\\u0966", "\\u09e6", "\\u0a66", "\\u0ae6", "\\u0b66",
        "\\u0be6", "\\u0c66", "\\u0ce6", "\\u0d66", "\\u0de6", "\\u0e50", "\\u0ed0", "\\u0f20",
        "\\u1040", "\\u1090", "\\u17e0", "\\u1810", "\\u1946", "\\u19d0", "\\u1a80", "\\u1a90",
        "\\u1b50", "\\u1bb0", "\\u1c40", "\\u1c50", "\\ua620", "\\ua8d0", "\\ua900", "\\ua9d0",
        "\\ua9f0", "\\uaa50", "\\uabf0", "\\uff10", "\\U000104a0", "\\U00010d30",
        "\\U00011066", "\\U000110f0", "\\U00011136", "\\U000111d0", "\\U000112f0",
        "\\U00011450", "\\U000114d0", "\\U00011650", "\\U000116c0", "\\U00011730",
        "\\U000118e0", "\\U00011950", "\\U00011c50", "\\U00011d50", "\\U00011da0",
        "\\U00016a60", "\\U00016ac0", "\\U00016b50", "\\U0001d7ce", "\\U0001d7d8",
        "\\U0001d7e2", "\\U0001d7ec", "\\U0001d7f6", "\\U0001e140", "\\U0001e2f0",
        "\\U0001e950", "\\U0001fbf0" },
    {
        "\\u0661", "\\u06f1", "\\u07c1", "\\u0967", "\\u09e7", "\\u0a67", "\\u0ae7", "\\u0b67",
        "\\u0be7", "\\u0c67", "\\u0ce7", "\\u0d67", "\\u0de7", "\\u0e51", "\\u0ed1", "\\u0f21",
        "\\u1041", "\\u1091", "\\u17e1", "\\u1811", "\\u1947", "\\u19d1", "\\u1a81", "\\u1a91",
        "\\u1b51", "\\u1bb1", "\\u1c41", "\\u1c51", "\\ua621", "\\ua8d1", "\\ua901", "\\ua9d1",
        "\\ua9f1", "\\uaa51", "\\uabf1", "\\uff11", "\\U000104a1", "\\U00010d31",
        "\\U00011067", "\\U000110f1", "\\U00011137", "\\U000111d1", "\\U000112f1",
        "\\U00011451", "\\U000114d1", "\\U00011651", "\\U000116c1", "\\U00011731",
        "\\U000118e1", "\\U00011951", "\\U00011c51", "\\U00011d51", "\\U00011da1",
        "\\U00016a61", "\\U00016ac1", "\\U00016b51", "\\U0001d7cf", "\\U0001d7d9",
        "\\U0001d7e3", "\\U0001d7ed", "\\U0001d7f7", "\\U0001e141", "\\U0001e2f1",
        "\\U0001e951", "\\U0001fbf1" },
    {
        "\\u0662", "\\u06f2", "\\u07c2", "\\u0968", "\\u09e8", "\\u0a68", "\\u0ae8", "\\u0b68",
        "\\u0be8", "\\u0c68", "\\u0ce8", "\\u0d68", "\\u0de8", "\\u0e52", "\\u0ed2", "\\u0f22",
        "\\u1042", "\\u1092", "\\u17e2", "\\u1812", "\\u1948", "\\u19d2", "\\u1a82", "\\u1a92",
        "\\u1b52", "\\u1bb2", "\\u1c42", "\\u1c52", "\\ua622", "\\ua8d2", "\\ua902", "\\ua9d2",
        "\\ua9f2", "\\uaa52", "\\uabf2", "\\uff12", "\\U000104a2", "\\U00010d32",
        "\\U00011068", "\\U000110f2", "\\U00011138", "\\U000111d2", "\\U000112f2",
        "\\U00011452", "\\U000114d2", "\\U00011652", "\\U000116c2", "\\U00011732",
        "\\U000118e2", "\\U00011952", "\\U00011c52", "\\U00011d52", "\\U00011da2",
        "\\U00016a62", "\\U00016ac2", "\\U00016b52", "\\U0001d7d0", "\\U0001d7da",
        "\\U0001d7e4", "\\U0001d7ee", "\\U0001d7f8", "\\U0001e142", "\\U0001e2f2",
        "\\U0001e952", "\\U0001fbf2" },
    {
        "\\u0663", "\\u06f3", "\\u07c3", "\\u0969", "\\u09e9", "\\u0a69", "\\u0ae9", "\\u0b69",
        "\\u0be9", "\\u0c69", "\\u0ce9", "\\u0d69", "\\u0de9", "\\u0e53", "\\u0ed3", "\\u0f23",
        "\\u1043", "\\u1093", "\\u17e3", "\\u1813", "\\u1949", "\\u19d3", "\\u1a83", "\\u1a93",
        "\\u1b53", "\\u1bb3", "\\u1c43", "\\u1c53", "\\ua623", "\\ua8d3", "\\ua903", "\\ua9d3",
        "\\ua9f3", "\\uaa53", "\\uabf3", "\\uff13", "\\U000104a3", "\\U00010d33",
        "\\U00011069", "\\U000110f3", "\\U00011139", "\\U000111d3", "\\U000112f3",
        "\\U00011453", "\\U000114d3", "\\U00011653", "\\U000116c3", "\\U00011733",
        "\\U000118e3", "\\U00011953", "\\U00011c53", "\\U00011d53", "\\U00011da3",
        "\\U00016a63", "\\U00016ac3", "\\U00016b53", "\\U0001d7d1", "\\U0001d7db",
        "\\U0001d7e5", "\\U0001d7ef", "\\U0001d7f9", "\\U0001e143", "\\U0001e2f3",
        "\\U0001e953", "\\U0001fbf3" },
    {
        "\\u0664", "\\u06f4", "\\u07c4", "\\u096a", "\\u09ea", "\\u0a6a", "\\u0aea", "\\u0b6a",
        "\\u0bea", "\\u0c6a", "\\u0cea", "\\u0d6a", "\\u0dea", "\\u0e54", "\\u0ed4", "\\u0f24",
        "\\u1044", "\\u1094", "\\u17e4", "\\u1814", "\\u194a", "\\u19d4", "\\u1a84", "\\u1a94",
        "\\u1b54", "\\u1bb4", "\\u1c44", "\\u1c54", "\\ua624", "\\ua8d4", "\\ua904", "\\ua9d4",
        "\\ua9f4", "\\uaa54", "\\uabf4", "\\uff14", "\\U000104a4", "\\U00010d34",
        "\\U0001106a", "\\U000110f4", "\\U0001113a", "\\U000111d4", "\\U000112f4",
        "\\U00011454", "\\U000114d4", "\\U00011654", "\\U000116c4", "\\U00011734",
        "\\U000118e4", "\\U00011954", "\\U00011c54", "\\U00011d54", "\\U00011da4",
        "\\U00016a64", "\\U00016ac4", "\\U00016b54", "\\U0001d7d2", "\\U0001d7dc",
        "\\U0001d7e6", "\\U0001d7f0", "\\U0001d7fa", "\\U0001e144", "\\U0001e2f4",
        "\\U0001e954", "\\U0001fbf4" },
    {
        "\\u0665", "\\u06f5", "\\u07c5", "\\u096b", "\\u09eb", "\\u0a6b", "\\u0aeb", "\\u0b6b",
        "\\u0beb", "\\u0c6b", "\\u0ceb", "\\u0d6b", "\\u0deb", "\\u0e55", "\\u0ed5", "\\u0f25",
        "\\u1045", "\\u1095", "\\u17e5", "\\u1815", "\\u194b", "\\u19d5", "\\u1a85", "\\u1a95",
        "\\u1b55", "\\u1bb5", "\\u1c45", "\\u1c55", "\\ua625", "\\ua8d5", "\\ua905", "\\ua9d5",
        "\\ua9f5", "\\uaa55", "\\uabf5", "\\uff15", "\\U000104a5", "\\U00010d35",
        "\\U0001106b", "\\U000110f5", "\\U0001113b", "\\U000111d5", "\\U000112f5",
        "\\U00011455", "\\U000114d5", "\\U00011655", "\\U000116c5", "\\U00011735",
        "\\U000118e5", "\\U00011955", "\\U00011c55", "\\U00011d55", "\\U00011da5",
        "\\U00016a65", "\\U00016ac5", "\\U00016b55", "\\U0001d7d3", "\\U0001d7dd",
        "\\U0001d7e7", "\\U0001d7f1", "\\U0001d7fb", "\\U0001e145", "\\U0001e2f5",
        "\\U0001e955", "\\U0001fbf5" },
    {
        "\\u0666", "\\u06f6", "\\u07c6", "\\u096c", "\\u09ec", "\\u0a6c", "\\u0aec", "\\u0b6c",
        "\\u0bec", "\\u0c6c", "\\u0cec", "\\u0d6c", "\\u0dec", "\\u0e56", "\\u0ed6", "\\u0f26",
        "\\u1046", "\\u1096", "\\u17e6", "\\u1816", "\\u194c", "\\u19d6", "\\u1a86", "\\u1a96",
        "\\u1b56", "\\u1bb6", "\\u1c46", "\\u1c56", "\\ua626", "\\ua8d6", "\\ua906", "\\ua9d6",
        "\\ua9f6", "\\uaa56", "\\uabf6", "\\uff16", "\\U000104a6", "\\U00010d36",
        "\\U0001106c", "\\U000110f6", "\\U0001113c", "\\U000111d6", "\\U000112f6",
        "\\U00011456", "\\U000114d6", "\\U00011656", "\\U000116c6", "\\U00011736",
        "\\U000118e6", "\\U00011956", "\\U00011c56", "\\U00011d56", "\\U00011da6",
        "\\U00016a66", "\\U00016ac6", "\\U00016b56", "\\U0001d7d4", "\\U0001d7de",
        "\\U0001d7e8", "\\U0001d7f2", "\\U0001d7fc", "\\U0001e146", "\\U0001e2f6",
        "\\U0001e956", "\\U0001fbf6" },
    {
        "\\u0667", "\\u06f7", "\\u07c7", "\\u096d", "\\u09ed", "\\u0a6d", "\\u0aed", "\\u0b6d",
        "\\u0bed", "\\u0c6d", "\\u0ced", "\\u0d6d", "\\u0ded", "\\u0e57", "\\u0ed7", "\\u0f27",
        "\\u1047", "\\u1097", "\\u17e7", "\\u1817", "\\u194d", "\\u19d7", "\\u1a87", "\\u1a97",
        "\\u1b57", "\\u1bb7", "\\u1c47", "\\u1c57", "\\ua627", "\\ua8d7", "\\ua907", "\\ua9d7",
        "\\ua9f7", "\\uaa57", "\\uabf7", "\\uff17", "\\U000104a7", "\\U00010d37",
        "\\U0001106d", "\\U000110f7", "\\U0001113d", "\\U000111d7", "\\U000112f7",
        "\\U00011457", "\\U000114d7", "\\U00011657", "\\U000116c7", "\\U00011737",
        "\\U000118e7", "\\U00011957", "\\U00011c57", "\\U00011d57", "\\U00011da7",
        "\\U00016a67", "\\U00016ac7", "\\U00016b57", "\\U0001d7d5", "\\U0001d7df",
        "\\U0001d7e9", "\\U0001d7f3", "\\U0001d7fd", "\\U0001e147", "\\U0001e2f7",
        "\\U0001e957", "\\U0001fbf7" },
    {
        "\\u0668", "\\u06f8", "\\u07c8", "\\u096e", "\\u09ee", "\\u0a6e", "\\u0aee", "\\u0b6e",
        "\\u0bee", "\\u0c6e", "\\u0cee", "\\u0d6e", "\\u0dee", "\\u0e58", "\\u0ed8", "\\u0f28",
        "\\u1048", "\\u1098", "\\u17e8", "\\u1818", "\\u194e", "\\u19d8", "\\u1a88", "\\u1a98",
        "\\u1b58", "\\u1bb8", "\\u1c48", "\\u1c58", "\\ua628", "\\ua8d8", "\\ua908", "\\ua9d8",
        "\\ua9f8", "\\uaa58", "\\uabf8", "\\uff18", "\\U000104a8", "\\U00010d38",
        "\\U0001106e", "\\U000110f8", "\\U0001113e", "\\U000111d8", "\\U000112f8",
        "\\U00011458", "\\U000114d8", "\\U00011658", "\\U000116c8", "\\U00011738",
        "\\U000118e8", "\\U00011958", "\\U00011c58", "\\U00011d58", "\\U00011da8",
        "\\U00016a68", "\\U00016ac8", "\\U00016b58", "\\U0001d7d6", "\\U0001d7e0",
        "\\U0001d7ea", "\\U0001d7f4", "\\U0001d7fe", "\\U0001e148", "\\U0001e2f8",
        "\\U0001e958", "\\U0001fbf8" },
    {
        "\\u0669", "\\u06f9", "\\u07c9", "\\u096f", "\\u09ef", "\\u0a6f", "\\u0aef", "\\u0b6f",
        "\\u0bef", "\\u0c6f", "\\u0cef", "\\u0d6f", "\\u0def", "\\u0e59", "\\u0ed9", "\\u0f29",
        "\\u1049", "\\u1099", "\\u17e9", "\\u1819", "\\u194f", "\\u19d9", "\\u1a89", "\\u1a99",
        "\\u1b59", "\\u1bb9", "\\u1c49", "\\u1c59", "\\ua629", "\\ua8d9", "\\ua909", "\\ua9d9",
        "\\ua9f9", "\\uaa59", "\\uabf9", "\\uff19", "\\U000104a9", "\\U00010d39",
        "\\U0001106f", "\\U000110f9", "\\U0001113f", "\\U000111d9", "\\U000112f9",
        "\\U00011459", "\\U000114d9", "\\U00011659", "\\U000116c9", "\\U00011739",
        "\\U000118e9", "\\U00011959", "\\U00011c59", "\\U00011d59", "\\U00011da9",
        "\\U00016a69", "\\U00016ac9", "\\U00016b59", "\\U0001d7d7", "\\U0001d7e1",
        "\\U0001d7eb", "\\U0001d7f5", "\\U0001d7ff", "\\U0001e149", "\\U0001e2f9",
        "\\U0001e959", "\\U0001fbf9" } >>

\* str.isdecimal(): the pattern class \d and the decimal module's digits.
IsDigit(c) ==
    \/ c \in {"0", "1", "2", "3", "4", "5", "6", "7", "8", "9"}
    \/ \E v \in 1..10 : c \in UnicodeDigits[v]

\* The value of a digit (Py_UNICODE_TODECIMAL).
DigitVal(c) ==
    CASE c = "0" -> 0 [] c = "1" -> 1 [] c = "2" -> 2 [] c = "3" -> 3
      [] c = "4" -> 4 [] c = "5" -> 5 [] c = "6" -> 6 [] c = "7" -> 7
      [] c = "8" -> 8 [] c = "9" -> 9
      [] OTHER -> (CHOOSE v \in 1..10 : c \in UnicodeDigits[v]) - 1

DigitChar(d) ==
    CASE d = 0 -> "0" [] d = 1 -> "1" [] d = 2 -> "2" [] d = 3 -> "3"
      [] d = 4 -> "4" [] d = 5 -> "5" [] d = 6 -> "6" [] d = 7 -> "7"
      [] d = 8 -> "8" [] d = 9 -> "9"

\* The letters the decimal module's case-insensitive parser reads.
Upper(c) ==
    CASE c = "e" -> "E" [] c = "i" -> "I" [] c = "n" -> "N" [] c = "f" -> "F"
      [] c = "t" -> "T" [] c = "y" -> "Y" [] c = "a" -> "A" [] c = "s" -> "S"
      [] OTHER -> c

UpperStr(s) == [i \in 1..Len(s) |-> Upper(s[i])]

\* s[from:] with a 1-indexed from.
Drop(s, from) == SubSeq(s, from, Len(s))

RECURSIVE LStrip(_)
LStrip(s) == IF s # <<>> /\ IsSpace(s[1]) THEN LStrip(Tail(s)) ELSE s

RECURSIVE RStrip(_)
RStrip(s) ==
    IF s # <<>> /\ IsSpace(s[Len(s)]) THEN RStrip(SubSeq(s, 1, Len(s) - 1)) ELSE s

\* str.strip()
Strip(s) == RStrip(LStrip(s))

\* str.replace(c, "")
Remove(s, c) == SelectSeq(s, LAMBDA x : x # c)

\* str.endswith(suffix)
EndsWith(s, suffix) ==
    /\ Len(s) >= Len(suffix)
    /\ SubSeq(s, Len(s) - Len(suffix) + 1, Len(s)) = suffix

\* s.startswith(prefix, at) with a 1-indexed at.
StartsWithAt(s, at, prefix) ==
    /\ at + Len(prefix) - 1 <= Len(s)
    /\ SubSeq(s, at, at + Len(prefix) - 1) = prefix

AllDigits(s) == \A i \in 1..Len(s) : IsDigit(s[i])

\* The first index of c in s from i on, or 0.
IndexFrom(s, c, i) ==
    IF \E j \in i..Len(s) : s[j] = c
    THEN CHOOSE j \in i..Len(s) : s[j] = c /\ \A k \in i..(j - 1) : s[k] # c
    ELSE 0

(***************************************************************************)
(* decimal.Decimal under the default context                               *)
(***************************************************************************)

\* The default context: prec=28, Emin=-999999, Emax=999999, rounding
\* ROUND_HALF_EVEN, traps InvalidOperation, DivisionByZero and Overflow.
Prec == 28
Emax == 999999
Emin == -999999
Etiny == Emin - Prec + 1
Etop == Emax - Prec + 1

DigitsOf(s) == [i \in 1..Len(s) |-> DigitVal(s[i])]

RECURSIVE StripZeros(_)
StripZeros(ds) ==
    IF Len(ds) > 1 /\ ds[1] = 0 THEN StripZeros(Tail(ds)) ELSE ds

\* The coefficient the decimal module keeps: str(int(digits)).
Coefficient(ds) == IF ds = <<>> THEN <<0>> ELSE StripZeros(ds)

IsZeroCoef(ds) == \A i \in 1..Len(ds) : ds[i] = 0

RECURSIVE NatOf(_)
NatOf(ds) == IF ds = <<>> THEN 0 ELSE 10 * NatOf(SubSeq(ds, 1, Len(ds) - 1)) + ds[Len(ds)]

\* A finite number: kind "F" with an integer exponent, and kind "FBig" where
\* the exponent is from Limb on in magnitude, held by its sign and digits.
Finite(sign, ds, exp) == [kind |-> "F", sign |-> sign, digits |-> ds, exp |-> exp]
FiniteBig(sign, ds, neg, eds) ==
    [kind |-> "FBig", sign |-> sign, digits |-> ds, exp |-> [neg |-> neg, digits |-> eds]]
Special(kind, sign, ds) == [kind |-> kind, sign |-> sign, digits |-> ds, exp |-> 0]

\* Decimal("0")
Zero == Finite(0, <<0>>, 0)

\* The digit sequence plus one.
RECURSIVE AddOne(_)
AddOne(ds) ==
    IF ds = <<>> THEN <<1>>
    ELSE IF ds[Len(ds)] < 9
         THEN SubSeq(ds, 1, Len(ds) - 1) \o <<ds[Len(ds)] + 1>>
         ELSE AddOne(SubSeq(ds, 1, Len(ds) - 1)) \o <<0>>

\* The digit sequence (not zero) minus one.
RECURSIVE SubOne(_)
SubOne(ds) ==
    IF ds[Len(ds)] > 0
    THEN SubSeq(ds, 1, Len(ds) - 1) \o <<ds[Len(ds)] - 1>>
    ELSE SubOne(SubSeq(ds, 1, Len(ds) - 1)) \o <<9>>

\* The constructor reads an exponent of any length.  Here it is held in
\* two limbs, as the integers computed with end before 2^31: its
\* magnitude is hi * Limb + lo, hi a digit sequence and lo a natural number
\* below Limb.
LimbDigits == 9
Limb == 10 ^ LimbDigits

\* The exponent of magnitude hi * Limb + t, with t from -Limb to 2 * Limb.
Carried(neg, hi, t) ==
    IF t >= Limb THEN [neg |-> neg, hi |-> AddOne(hi), lo |-> t - Limb]
    ELSE IF t >= 0 THEN [neg |-> neg, hi |-> hi, lo |-> t]
    ELSE IF IsZeroCoef(hi) THEN [neg |-> ~neg, hi |-> hi, lo |-> 0 - t]
    ELSE [neg |-> neg, hi |-> SubOne(hi), lo |-> t + Limb]

\* The exponent e plus the integer k, k below Limb in magnitude.
ExpPlus(e, k) == Carried(e.neg, e.hi, e.lo + (IF e.neg THEN 0 - k ELSE k))

\* The digits of the magnitude of the exponent e.
ExpDigits(e) ==
    Coefficient(e.hi \o [i \in 1..LimbDigits |-> (e.lo \div 10 ^ (LimbDigits - i)) % 10])

\* decimal.MAX_EMAX = 999999999999999999, and the least exponent of the
\* context the constructor reads a string in, MIN_EMIN - (MAX_PREC - 1) =
\* -1999999999999999997: the digits of both.
MAX_EMAX == [i \in 1..(2 * LimbDigits) |-> 9]
MIN_ETINY == <<1>> \o [i \in 1..(2 * LimbDigits - 1) |-> 9] \o <<7>>

\* The number of digits a is at most that of digits b (no leading zeros).
DigitsLE(a, b) ==
    \/ Len(a) < Len(b)
    \/ /\ Len(a) = Len(b)
       /\ \/ a = b
          \/ \E i \in 1..Len(b) :
                a[i] < b[i] /\ SubSeq(a, 1, i - 1) = SubSeq(b, 1, i - 1)

\* The exponent e is from -MIN_ETINY to MAX_EMAX.
InMaxContext(e) ==
    IsZeroCoef(e.hi) \/ DigitsLE(ExpDigits(e), IF e.neg THEN MIN_ETINY ELSE MAX_EMAX)

\* ROUND_HALF_UP in the place of ROUND_HALF_EVEN: a tie rounds up.
RoundsUpOnTie(ds, k) ==
    LET rest == Drop(ds, k + 1)
    IN rest # <<>> /\ rest[1] >= 5

\* ROUND_HALF_EVEN of the coefficient ds to its first k digits (k >= 0):
\* whether the discarded digits round the kept ones up.
RoundsUp(ds, k) ==
    LET rest == Drop(ds, k + 1)
        lastKept == IF k = 0 THEN 0 ELSE ds[k]
    IN /\ rest # <<>>
       /\ \/ rest[1] > 5
          \/ /\ rest[1] = 5
             /\ \/ ~IsZeroCoef(Tail(rest))
                \/ lastKept % 2 = 1

\* The coefficient ds cut to its first k digits, rounded half-even; for k < 0
\* the decimal module rounds the coefficient 1 to no digit instead.
RoundKept(kept, up) == IF up THEN Coefficient(AddOne(kept)) ELSE Coefficient(kept)

RoundTo(ds, k) ==
    IF k < 0 THEN RoundKept(<<0>>, RoundsUp(<<1>>, 0))
    ELSE RoundKept(IF k = 0 THEN <<0>> ELSE SubSeq(ds, 1, k), RoundsUp(ds, k))

Zeros(n) == IF n <= 0 THEN <<>> ELSE [i \in 1..n |-> 0]

Ok(v) == [err |-> "none", val |-> v]
Raise(e, v) == [err |-> e, val |-> v]

\* The exponent the digits w write (no leading zeros), negative or not.
Written(negative, w) ==
    IF Len(w) <= LimbDigits THEN [neg |-> negative, hi |-> <<>>, lo |-> NatOf(w)]
    ELSE [neg |-> negative, hi |-> SubSeq(w, 1, Len(w) - LimbDigits),
          lo |-> NatOf(Drop(w, Len(w) - LimbDigits + 1))]

\* The exponent part of a numeric string, [-+]?\d+ : [ok, val].
ExponentDigits(negative, ds) ==
    IF ds = <<>> \/ ~AllDigits(ds) THEN [ok |-> FALSE, val |-> Written(FALSE, <<0>>)]
    ELSE [ok |-> TRUE, val |-> Written(negative, Coefficient(DigitsOf(ds)))]

ExponentOf(s) ==
    IF s # <<>> /\ s[1] \in {"-", "+"}
    THEN ExponentDigits(s[1] = "-", Tail(s))
    ELSE ExponentDigits(FALSE, s)

\* The constructor reads a string exactly or not at all: the number of
\* coefficient c and exponent e, if e and the exponent of its first digit
\* are both from -MIN_ETINY to MAX_EMAX.
Exact(sign, c, e) ==
    IF InMaxContext(e) /\ InMaxContext(ExpPlus(e, Len(c) - 1))
    THEN [ok |-> TRUE,
          val |-> IF IsZeroCoef(e.hi)
                  THEN Finite(sign, c, IF e.neg THEN 0 - e.lo ELSE e.lo)
                  ELSE FiniteBig(sign, c, e.neg, ExpDigits(e))]
    ELSE [ok |-> FALSE, val |-> Zero]

\* The number with integer part int, fractional part frac and exponent ex:
\* all digits, and at least one of them before the exponent.
NumberFrom(sign, int, frac, ex) ==
    IF /\ ex.ok
       /\ AllDigits(int)
       /\ AllDigits(frac)
       /\ Len(int) + Len(frac) >= 1
    THEN Exact(sign, Coefficient(DigitsOf(int \o frac)), ExpPlus(ex.val, 0 - Len(frac)))
    ELSE [ok |-> FALSE, val |-> Zero]

\* The mantissa split at its first "." (at dot, 0 for none).
MantissaOf(sign, mant, dot, ex) ==
    NumberFrom(sign,
               IF dot = 0 THEN mant ELSE SubSeq(mant, 1, dot - 1),
               IF dot = 0 THEN <<>> ELSE Drop(mant, dot + 1),
               ex)

SplitAtDot(sign, mant, ex) == MantissaOf(sign, mant, IndexFrom(mant, ".", 1), ex)

\* The numeric string split at its first "E" (at e, 0 for none).
SplitAtE(sign, s, e) ==
    SplitAtDot(sign,
               IF e = 0 THEN s ELSE SubSeq(s, 1, e - 1),
               IF e = 0 THEN [ok |-> TRUE, val |-> Written(FALSE, <<0>>)]
               ELSE ExponentOf(Drop(s, e + 1)))

\* A number of the decimal module's grammar, \d*(\.\d*)?(E[-+]?\d+)? with
\* at least one digit before the exponent: [ok, val].
NumberOf(sign, s) == SplitAtE(sign, s, IndexFrom(s, "E", 1))

\* The payload of a NaN: diag.lstrip("0").
RECURSIVE Payload(_)
Payload(ds) == IF ds # <<>> /\ ds[1] = 0 THEN Payload(Tail(ds)) ELSE ds

\* The numeric string after its sign: an infinity, a NaN, or a number.
Unsigned(sign, body) ==
    IF body \in {<<"I","N","F">>, <<"I","N","F","I","N","I","T","Y">>}
    THEN [ok |-> TRUE, val |-> Special("Inf", sign, <<0>>)]
    ELSE IF StartsWithAt(body, 1, <<"N","A","N">>) /\ AllDigits(Drop(body, 4))
    THEN [ok |-> TRUE, val |-> Special("NaN", sign, Payload(DigitsOf(Drop(body, 4))))]
    ELSE IF StartsWithAt(body, 1, <<"S","N","A","N">>) /\ AllDigits(Drop(body, 5))
    THEN [ok |-> TRUE, val |-> Special("sNaN", sign, Payload(DigitsOf(Drop(body, 5))))]
    ELSE NumberOf(sign, body)

\* The numeric string t, stripped and in upper case: its optional sign.
Signed(t) ==
    IF t # <<>> /\ t[1] \in {"-", "+"}
    THEN Unsigned(IF t[1] = "-" THEN 1 ELSE 0, Tail(t))
    ELSE Unsigned(0, t)

\* Decimal(str): [ok, val]; ok is FALSE where the constructor raises
\* InvalidOperation (a string that is no numeric string).  The constructor
\* strips white space, drops underscores and ignores case.
DecimalOf(s) == Signed(UpperStr(Remove(Strip(s), "_")))

\* Decimal._fix, the rounding done: drop a digit the carry added.
Rounded(d, coeff, exp_min) ==
    IF Len(coeff) > Prec
    THEN IF exp_min + 1 > Etop THEN Raise("Overflow", d)
         ELSE Ok(Finite(d.sign, SubSeq(coeff, 1, Len(coeff) - 1), exp_min + 1))
    ELSE Ok(Finite(d.sign, coeff, exp_min))

\* Decimal._fix at the least exponent exp_min the precision allows.
FixAt(d, exp_min) ==
    IF d.exp >= exp_min THEN Ok(d)
    ELSE Rounded(d, RoundTo(d.digits, Len(d.digits) + d.exp - exp_min), exp_min)

\* Decimal._fix of a finite non-zero value: round to Prec digits, raise
\* Overflow beyond Etop, go to zero or a subnormal below Etiny.
FixTop(d, top) ==
    IF top > Etop THEN Raise("Overflow", d)
    ELSE FixAt(d, IF top < Etiny THEN Etiny ELSE top)

FixNonZero(d) == FixTop(d, Len(d.digits) + d.exp - Prec)

\* Decimal._fix of a zero: the exponent is clamped to [Etiny, Emax].
FixZero(d) ==
    Ok(Finite(d.sign, <<0>>,
              IF d.exp < Etiny THEN Etiny ELSE IF d.exp > Emax THEN Emax ELSE d.exp))

\* Decimal._fix of a value whose exponent is from Limb on in magnitude, far
\* beyond Emax and Etiny: a zero is clamped, another value overflows or
\* rounds to the zero of exponent Etiny.
FixBig(d) ==
    IF IsZeroCoef(d.digits)
    THEN Ok(Finite(d.sign, <<0>>, IF d.exp.neg THEN Etiny ELSE Emax))
    ELSE IF d.exp.neg THEN Ok(Finite(d.sign, <<0>>, Etiny))
    ELSE Raise("Overflow", d)

\* Decimal._fix
Fix(d) ==
    IF d.kind = "FBig" THEN FixBig(d)
    ELSE IF IsZeroCoef(d.digits) THEN FixZero(d)
    ELSE FixNonZero(d)

\* Decimal._fix_nan: a payload keeps its last Prec digits.
FixNaN(d) ==
    IF Len(d.digits) > Prec
    THEN [d EXCEPT !.digits = Payload(Drop(d.digits, Len(d.digits) - Prec + 1))]
    ELSE d

\* Decimal.__neg__ (the unary minus) under the default context.
Negate(d) ==
    CASE d.kind = "sNaN" -> Raise("InvalidOperation", d)
      [] d.kind = "NaN" -> Ok(FixNaN(d))
      [] d.kind = "Inf" -> Ok([d EXCEPT !.sign = 1 - d.sign])
      [] OTHER ->
            IF IsZeroCoef(d.digits) THEN Fix([d EXCEPT !.sign = 0])
            ELSE Fix([d EXCEPT !.sign = 1 - d.sign])

(***************************************************************************)
(* parse_amount                                                            *)
(***************************************************************************)

ZERO_SENTINEL == <<".", "0", "0">>
CR == <<"C", "R">>

\* try: amount = Decimal(value) / except: return Decimal("0") / then
\* return -amount if is_credit else amount, with d the constructor's result.
SignedAmount(d, is_credit) ==
    IF ~d.ok THEN Ok(Zero)
    ELSE IF is_credit THEN Negate(d.val)
    ELSE Ok(d.val)

\* value = value[:-2] if is_credit; value = value.replace(",", "")
Cleaned(v, is_credit) ==
    Remove(IF is_credit THEN SubSeq(v, 1, Len(v) - 2) ELSE v, ",")

\* is_credit = value.endswith("CR") and what follows it.
Credit(v, is_credit) == SignedAmount(DecimalOf(Cleaned(v, is_credit)), is_credit)

\* The function after value = value.strip().
Stripped(v) ==
    IF v = ZERO_SENTINEL THEN Ok(Zero)
    ELSE Credit(v, EndsWith(v, CR))

parse_amount(v0) == Stripped(Strip(v0))

(***************************************************************************)
(* format_amount                                                           *)
(***************************************************************************)

DigitChars(ds) == [i \in 1..Len(ds) |-> DigitChar(ds[i])]

\* Decimal == 0: [err, val]; comparing a signaling NaN raises.
EqualsZero(d) ==
    CASE d.kind = "sNaN" -> Raise("InvalidOperation", FALSE)
      [] d.kind \in {"F", "FBig"} -> Ok(IsZeroCoef(d.digits))
      [] OTHER -> Ok(FALSE)

\* Decimal._rescale(exp, ROUND_HALF_EVEN): the coefficient of the value at
\* exponent exp.
Rescale(d, exp) ==
    IF IsZeroCoef(d.digits) THEN <<0>>
    ELSE IF d.exp >= exp THEN d.digits \o Zeros(d.exp - exp)
    ELSE RoundTo(d.digits, Len(d.digits) + d.exp - exp)

\* The digits (at least three) as integer digits, ".", two digits.
PointTwo(sign, padded) ==
    (IF sign = 1 THEN <<"-">> ELSE <<>>)
       \o DigitChars(SubSeq(padded, 1, Len(padded) - 2))
       \o <<".">>
       \o DigitChars(SubSeq(padded, Len(padded) - 1, Len(padded)))

PadTwo(sign, c) == PointTwo(sign, Zeros(3 - Len(c)) \o c)

\* format(d, ".2f") of a finite value.
FixedTwo(d) == PadTwo(d.sign, Rescale(d, -2))

SignChars(d) == IF d.sign = 1 THEN <<"-">> ELSE <<>>

\* A run of equal characters held as one element of a text, times the
\* digits of their number: the zeros of a text of more than Limb characters.
Run(c, times) == [char |-> c, times |-> times]

\* The digits of the number of characters of format(d, ".2f"), d a finite
\* value with an exponent above zero and a coefficient that is not zero:
\* the sign, the digits, a zero for each power of ten, the point and two
\* zeros.
TextLength(d) ==
    ExpDigits(ExpPlus(IF d.kind = "FBig" THEN Written(FALSE, d.exp.digits)
                      ELSE [neg |-> FALSE, hi |-> <<>>, lo |-> d.exp],
                      d.sign + Len(d.digits) + 3))

\* The memory of the machine holds the text of d: room is the digits of the
\* number of characters of the longest text it lets the formatter build.
Fits(d, room) == DigitsLE(TextLength(d), room)

\* format(d, ".2f") of a value of kind "F": a MemoryError when the zeros of
\* an exponent above zero do not fit.
FormatF(d, room) ==
    IF d.exp > 0 /\ ~IsZeroCoef(d.digits) /\ ~Fits(d, room)
    THEN Raise("MemoryError", <<>>)
    ELSE Ok(FixedTwo(d))

\* format(d, ".2f") of a value of kind "FBig", not zero.  Below -Limb no
\* digit is left.  From Limb on the formatter raises ValueError beyond the
\* widest precision of the decimal module, MemoryError when the text does
\* not fit, and else gives the text, its zeros as one Run.
FormatBig(d, room) ==
    IF d.exp.neg THEN Ok(PadTwo(d.sign, RoundTo(d.digits, 0 - 1)))
    ELSE IF ~InMaxContext(ExpPlus(Written(FALSE, d.exp.digits), Len(d.digits) + 1))
    THEN Raise("ValueError", <<>>)
    ELSE IF ~Fits(d, room) THEN Raise("MemoryError", <<>>)
    ELSE Ok(SignChars(d) \o DigitChars(d.digits) \o <<Run("0", d.exp.digits)>>
               \o <<".", "0", "0">>)

\* format(d, ".2f")
FormatF2(d, room) ==
    CASE d.kind = "F" -> FormatF(d, room)
      [] d.kind = "FBig" -> FormatBig(d, room)
      [] d.kind = "Inf" -> Ok(SignChars(d) \o <<"I","n","f","i","n","i","t","y">>)
      [] d.kind = "NaN" -> Ok(SignChars(d) \o <<"N","a","N">> \o DigitChars(d.digits))
      [] OTHER -> Ok(SignChars(d) \o <<"s","N","a","N">> \o DigitChars(d.digits))

\* The formatter without the zero case.
FormattedPlain(a, z, room) ==
    IF z.err # "none" THEN Raise(z.err, <<>>)
    ELSE FormatF2(a, room)

\* if amount == 0: return ".00" / return f"{amount:.2f}", with z the result
\* of the comparison and room the memory of the machine.
Formatted(a, z, room) ==
    IF z.err # "none" THEN Raise(z.err, <<>>)
    ELSE IF z.val THEN Ok(ZERO_SENTINEL)
    ELSE FormatF2(a, room)

format_amount(a, room) == Formatted(a, EqualsZero(a), room)

(***************************************************************************)
(* Configuration                                                           *)
(***************************************************************************)

PAGES == <<
    [page_num |-> 4,  company |-> <<"I","n","s","u","r","a","n","c","e"," ","D","i","v","i","s","i","o","n"," ","4">>],
    [page_num |-> 5,  company |-> <<"I","n","s","u","r","a","n","c","e"," ","D","i","v","i","s","i","o","n"," ","5">>],
    [page_num |-> 7,  company |-> <<"I","n","s","u","r","a","n","c","e"," ","D","i","v","i","s","i","o","n"," ","7">>],
    [page_num |-> 8,  company |-> <<"I","n","s","u","r","a","n","c","e"," ","D","i","v","i","s","i","o","n"," ","8">>],
    [page_num |-> 10, company |-> <<"I","n","s","u","r","a","n","c","e"," ","D","i","v","i","s","i","o","n"," ","1","0">>],
    [page_num |-> 11, company |-> <<"I","n","s","u","r","a","n","c","e"," ","D","i","v","i","s","i","o","n"," ","1","1">> ] >>

NEW_POLICIES == <<"N","E","W"," ","P","O","L","I","C","I","E","S">>
REWRITES == <<"R","E","W","R","I","T","E","S">>
ADDED_PREMIUM == <<"A","D","D","E","D"," ","P","R","E","M","I","U","M">>
RETURN_PREMIUM == <<"R","E","T","U","R","N"," ","P","R","E","M","I","U","M">>
RENEWALS == <<"R","E","N","E","W","A","L","S">>
CANCELLATIONS == <<"C","A","N","C","E","L","L","A","T","I","O","N","S">>

TRANSACTION_TYPES ==
    <<NEW_POLICIES, REWRITES, ADDED_PREMIUM, RETURN_PREMIUM, RENEWALS, CANCELLATIONS>>

CSV_HEADERS == <<
    <<"C","o","m","p","a","n","y">>,
    <<"N","e","w"," ","P","o","l","i","c","i","e","s">>,
    <<"R","e","w","r","i","t","e","s">>,
    <<"A","d","d","e","d"," ","P","r","e","m","i","u","m">>,
    <<"R","e","t","u","r","n"," ","P","r","e","m","i","u","m">>,
    <<"R","e","n","e","w","a","l","s">>,
    <<"C","a","n","c","e","l","l","a","t","i","o","n","s">> >>

(***************************************************************************)
(* LINE_PATTERN: ^(label|...)\s+([\d,]+\.\d{2}(?:CR)?) with re.MULTILINE    *)
(***************************************************************************)

\* The end (the index after the last character) of the longest run from i
\* of white space (\s+, greedy).
RECURSIVE SpaceRunEnd(_, _)
SpaceRunEnd(s, i) ==
    IF i <= Len(s) /\ IsSpace(s[i]) THEN SpaceRunEnd(s, i + 1) ELSE i

\* The same for the class [\d,].
RECURSIVE DigitCommaRunEnd(_, _)
DigitCommaRunEnd(s, i) ==
    IF i <= Len(s) /\ (IsDigit(s[i]) \/ s[i] = ",") THEN DigitCommaRunEnd(s, i + 1) ELSE i

\* [\d,]+ having matched from i to before j: \.\d{2}(?:CR)? from j.  The
\* index after the match, or 0 for no match.
AmountTail(s, i, j) ==
    IF /\ j > i
       /\ j + 2 <= Len(s)
       /\ s[j] = "."
       /\ IsDigit(s[j + 1])
       /\ IsDigit(s[j + 2])
    THEN IF StartsWithAt(s, j + 3, CR) THEN j + 5 ELSE j + 3
    ELSE 0

\* AMOUNT_PATTERN matched at i: the index after the match, or 0 for no match.
\* The run [\d,]+ is followed by a character of neither class, so the greedy
\* match is the only one.
AMOUNT_PATTERN(s, i) == AmountTail(s, i, DigitCommaRunEnd(s, i))

NoMatch == [ok |-> FALSE, trans_type |-> <<>>, gross |-> <<>>, end |-> 0]

\* The match of label at i, the amount found from j to before e (e = 0: none).
Captured(s, label, j, e) ==
    IF e > 0
    THEN [ok |-> TRUE, trans_type |-> label, gross |-> SubSeq(s, j, e - 1), end |-> e]
    ELSE NoMatch

\* The pattern with \s* in the place of \s+: no white space is needed.
AfterSpaceOrNone(s, label, i, j) == Captured(s, label, j, AMOUNT_PATTERN(s, j))

\* The label having matched before i: \s+ from i to before j, then the amount.
AfterSpace(s, label, i, j) ==
    Captured(s, label, j, IF j > i THEN AMOUNT_PATTERN(s, j) ELSE 0)

\* The alternative label tried at i.
Alternative(s, i, label) ==
    IF StartsWithAt(s, i, label)
    THEN AfterSpace(s, label, i + Len(label), SpaceRunEnd(s, i + Len(label)))
    ELSE NoMatch

\* The alternatives from the k-th on, tried in order at i.
RECURSIVE TryLabels(_, _, _)
FirstOf(s, i, k, m) == IF m.ok THEN m ELSE TryLabels(s, i, k + 1)

TryLabels(s, i, k) ==
    IF k > Len(TRANSACTION_TYPES) THEN NoMatch
    ELSE FirstOf(s, i, k, Alternative(s, i, TRANSACTION_TYPES[k]))

\* ^ under re.MULTILINE: the start of the text or just after a newline.
AtLineStart(s, i) == i = 1 \/ s[i - 1] = "\n"

\* LINE_PATTERN.match at i.
LINE_PATTERN(s, i) == IF AtLineStart(s, i) THEN TryLabels(s, i, 1) ELSE NoMatch

\* The next position after pos at which ^ holds (the index after the next
\* newline), or the index after the text.
LineStartAfter(s, nl) == IF nl = 0 THEN Len(s) + 1 ELSE nl + 1

NextLineStart(s, pos) == LineStartAfter(s, IndexFrom(s, "\n", pos))

\* LINE_PATTERN.finditer(text): the non-overlapping matches from pos on,
\* left to right.  A position where ^ fails cannot match, so the scan goes
\* from a failed position to the next line start.
RECURSIVE finditer(_, _)
Scan(s, pos, m) ==
    IF m.ok THEN <<m>> \o finditer(s, m.end)
    ELSE finditer(s, NextLineStart(s, pos))

finditer(s, pos) == IF pos > Len(s) THEN <<>> ELSE Scan(s, pos, LINE_PATTERN(s, pos))

(***************************************************************************)
(* extract_page_data                                                       *)
(***************************************************************************)

\* page.extract_text(): a str or None.
Text(s) == [is_none |-> FALSE, str |-> s]
NoText == [is_none |-> TRUE, str |-> <<>>]

\* A page whose extract_text() raises e (the library fails on its content).
Unreadable(e) == [is_none |-> FALSE, str |-> <<>>, raises |-> e]

\* "no record"
None == [is_none |-> TRUE]

CompanyData(company, np, rw, ap, rp, rn, cn) ==
    [is_none |-> FALSE, company |-> company, new_policies |-> np, rewrites |-> rw,
     added_premium |-> ap, return_premium |-> rp, renewals |-> rn,
     cancellations |-> cn]

\* values[trans_type] = a
Put(values, trans_type, a) ==
    [t \in DOMAIN values \cup {trans_type} |-> IF t = trans_type THEN a ELSE values[t]]

\* The loop over the matches: acc.values maps a label to its amount, and
\* acc.err names the exception parse_amount raised, if any.
RECURSIVE CollectValues(_, _, _)
\* values[trans_type] = parse_amount(gross), with a the parser's result.
Store(matches, k, acc, a) ==
    IF a.err # "none" THEN [acc EXCEPT !.err = a.err]
    ELSE CollectValues(matches, k + 1,
                       [acc EXCEPT !.values = Put(acc.values, matches[k].trans_type, a.val)])

\* if trans_type not in values: ...
FirstOccurrence(matches, k, acc) ==
    IF matches[k].trans_type \in DOMAIN acc.values
    THEN CollectValues(matches, k + 1, acc)
    ELSE Store(matches, k, acc, parse_amount(matches[k].gross))

CollectValues(matches, k, acc) ==
    IF k > Len(matches) THEN acc ELSE FirstOccurrence(matches, k, acc)

\* values.get(key, Decimal("0"))
\* values.get(key) with another label's amount in the place of the default.
GetAnother(values, key) ==
    IF key \in DOMAIN values THEN values[key]
    ELSE values[CHOOSE t \in DOMAIN values : TRUE]

Get(values, key) == IF key \in DOMAIN values THEN values[key] ELSE Zero

\* The assembly without `if not values: return None`.
AssembleAlways(company, acc) ==
    IF acc.err # "none" THEN Raise(acc.err, None)
    ELSE Ok(CompanyData(company,
                        Get(acc.values, NEW_POLICIES),
                        Get(acc.values, REWRITES),
                        Get(acc.values, ADDED_PREMIUM),
                        Get(acc.values, RETURN_PREMIUM),
                        Get(acc.values, RENEWALS),
                        Get(acc.values, CANCELLATIONS)))

\* if not values: return None / return CompanyData(...)
Assemble(company, acc) ==
    IF acc.err # "none" THEN Raise(acc.err, None)
    ELSE IF DOMAIN acc.values = {} THEN Ok(None)
    ELSE Ok(CompanyData(company,
                        Get(acc.values, NEW_POLICIES),
                        Get(acc.values, REWRITES),
                        Get(acc.values, ADDED_PREMIUM),
                        Get(acc.values, RETURN_PREMIUM),
                        Get(acc.values, RENEWALS),
                        Get(acc.values, CANCELLATIONS)))

\* text = page.extract_text(), whose exception leaves the function;
\* if not text: return None  (None and "" are false)
extract_page_data(page, company) ==
    IF "raises" \in DOMAIN page THEN Raise(page.raises, None)
    ELSE IF page.is_none \/ page.str = <<>> THEN Ok(None)
    ELSE Assemble(company,
                  CollectValues(finditer(page.str, 1), 1,
                                [err |-> "none", values |-> [t \in {} |-> Zero]]))

(***************************************************************************)
(* write_csv and print_data                                                *)
(***************************************************************************)

\* The six amounts of a record, in the order both renderings use.
Amounts(row) ==
    <<row.new_policies, row.rewrites, row.added_premium, row.return_premium,
      row.renewals, row.cancellations>>

\* The first exception among a sequence of [err, val] results, or "none".
RECURSIVE FirstErr(_, _)
FirstErr(rs, k) ==
    IF k > Len(rs) THEN "none"
    ELSE IF rs[k].err # "none" THEN rs[k].err
    ELSE FirstErr(rs, k + 1)

\* The values of the results before the first exception.
Vals(rs) ==
    [k \in 1..(CHOOSE n \in 0..Len(rs) :
                  /\ \A j \in 1..n : rs[j].err = "none"
                  /\ n < Len(rs) => rs[n + 1].err # "none") |-> rs[k].val]

\* The results rs as one result: the first exception, if any, and the
\* values that came before it.
All(rs, err) == [err |-> err, val |-> Vals(rs)]

\* format_amount of each of the six amounts.
Cells(row, room) == [k \in 1..6 |-> format_amount(Amounts(row)[k], room)]

\* One data row of write_csv: the company and the six formatted amounts.
\* The list is built before writer.writerow is called, so an exception of
\* format_amount leaves no part of the row.
CsvCells(company, cells) ==
    IF cells.err # "none" THEN Raise(cells.err, <<>>) ELSE Ok(<<company>> \o cells.val)

CsvRowOf(company, cells) == CsvCells(company, All(cells, FirstErr(cells, 1)))

CsvRow(row, room) == CsvRowOf(row.company, Cells(row, room))

\* writer.writerow(CSV_HEADERS), then a row a record: the rows handed to
\* the writer, which are the header and the rows before the first
\* exception, and that exception.
CsvFile(rows) == [err |-> rows.err, val |-> <<CSV_HEADERS>> \o rows.val]

CsvRows(out) == CsvFile(All(out, FirstErr(out, 1)))

\* The index of the last "/" of p, or 0.
LastSlash(p) ==
    IF \E i \in 1..Len(p) : p[i] = "/"
    THEN CHOOSE i \in 1..Len(p) : p[i] = "/" /\ \A j \in (i + 1)..Len(p) : p[j] # "/"
    ELSE 0

\* os.path.dirname(p): p up to its last "/", without the slashes at the end
\* unless it is slashes only.
dirname(p) ==
    IF \A i \in 1..LastSlash(p) : p[i] = "/"
    THEN SubSeq(p, 1, LastSlash(p))
    ELSE SubSeq(p, 1, CHOOSE n \in 1..LastSlash(p) :
                         p[n] # "/" /\ \A j \in (n + 1)..LastSlash(p) : p[j] = "/")

\* os.path.basename(p)
basename(p) == Drop(p, LastSlash(p) + 1)

\* os.path.join(a, b)
join(a, b) ==
    IF b # <<>> /\ b[1] = "/" THEN b
    ELSE IF a = <<>> \/ a[Len(a)] = "/" THEN a \o b
    ELSE a \o <<"/">> \o b

\* The path holds the character U+0000.
HasNul(p) == \E i \in 1..Len(p) : p[i] = "\\x00"

\* os.makedirs(d, exist_ok=True), as the exception it raises or "none": no
\* directory has the empty name, fs.makedirs is what the file system
\* answers to the making of the directories of d, and a name with U+0000
\* is refused before the file system is asked for it (in the first
\* component of d: before it is asked at all).
makedirs(d, fs) ==
    IF d = <<>> THEN "FileNotFoundError"
    ELSE IF fs.makedirs # "none"
            /\ ~HasNul(SubSeq(d, 1, IF IndexFrom(d, "/", 1) = 0 THEN Len(d)
                                    ELSE IndexFrom(d, "/", 1) - 1))
    THEN fs.makedirs
    ELSE IF HasNul(d) THEN "ValueError"
    ELSE "none"

\* open(p, "w") after makedirs(dirname(p)), as the exception it raises or
\* "none": a path that ends in "/", "." or ".." is of a directory, and
\* fs.open is what the file system answers for another.
open(p, fs) ==
    IF HasNul(p) THEN "ValueError"
    ELSE IF basename(p) \in {<<>>, <<".">>, <<".", ".">>} THEN "IsADirectoryError"
    ELSE fs.open

\* Lines 148 and 150, as the exception raised or "none".
OpenedFor(path, fs) ==
    IF makedirs(dirname(path), fs) # "none"
    THEN makedirs(dirname(path), fs)
    ELSE open(path, fs)

\* The `with` block left: fs.write is what the file system answers to the
\* writing of the file.  The file is buffered, so a refusal is raised by
\* the writer.writerow that fills the buffer, after fs.after rows were
\* handed over, or else when the file is closed, where it takes the place
\* of a row's exception.
Closed(out, fs) ==
    IF fs.write = "none" THEN out
    ELSE Raise(fs.write,
               SubSeq(out.val, 1, IF fs.after < Len(out.val) THEN fs.after ELSE Len(out.val)))

\* The exception that leaves write_csv, or "none", and the rows it handed
\* to csv.writer before: none when the directory or the file is refused
\* (lines 148 and 150), else the header and the rows of the records before
\* the exception.
write_csv(rows, path, fs, room) ==
    IF OpenedFor(path, fs) # "none" THEN Raise(OpenedFor(path, fs), <<>>)
    ELSE Closed(CsvRows([i \in 1..Len(rows) |-> CsvRow(rows[i], room)]), fs)

\* The seven lines print_data prints for one record: each amount is
\* formatted as its line is printed, so an exception of format_amount comes
\* after the lines before it.
PrintLines(company, cells) ==
    [err |-> cells.err,
     val |-> << <<"\n","-","-","-"," ">> \o company \o <<" ","-","-","-">> >>
             \o [k \in 1..Len(cells.val) |-> CSV_HEADERS[k + 1] \o <<":"," ">> \o cells.val[k]]]

PrintRowOf(company, cells) == PrintLines(company, All(cells, FirstErr(cells, 1)))

PrintRow(row, room) == PrintRowOf(row.company, Cells(row, room))

RECURSIVE Flatten(_)
Flatten(ss) == IF ss = <<>> THEN <<>> ELSE Head(ss) \o Flatten(Tail(ss))

\* The lines printed: those of the records before the first exception and,
\* of the record that raised it, those before the exception.
Printed(out, rows) ==
    [err |-> rows.err,
     val |-> Flatten(rows.val)
             \o (IF rows.err # "none" THEN out[Len(rows.val) + 1].val ELSE <<>>)]

PrintRows(out) == Printed(out, All(out, FirstErr(out, 1)))

print_data(rows, room) == PrintRows([i \in 1..Len(rows) |-> PrintRow(rows[i], room)])

(***************************************************************************)
(* extract_pdf and main: the run of the program                            *)
(***************************************************************************)

\* The page count up to which documents are drawn.
MaxPages == 11

OTHER_CONTENT == <<"O","t","h","e","r"," ","c","o","n","t","e","n","t">>
NEW_POLICIES_LINE ==
    <<"N","E","W"," ","P","O","L","I","C","I","E","S"," ","1",",","0","0","0",".","0","0",
      " ","1","5","0",".","0","0"," ","8","5","0",".","0","0","\n">>
RETURN_PREMIUM_LINE ==
    <<"R","E","T","U","R","N"," ","P","R","E","M","I","U","M"," ","5","0","0",".","0","0","C","R",
      " ","7","5",".","0","0","C","R"," ","4","2","5",".","0","0","C","R","\n">>

\* What extract_text() gives for a page the configuration names, and for any
\* other page.
AssignedPageTexts ==
    {NoText, Text(OTHER_CONTENT), Text(NEW_POLICIES_LINE), Text(RETURN_PREMIUM_LINE),
     Unreadable("PDFSyntaxError")}
OtherPageTexts == {Text(RETURN_PREMIUM_LINE)}

\* What pdfplumber.open answers for a path that exists: the document doc,
\* or the exception of a file the process may not read; for what has no
\* page also that of a directory and of a file that is no PDF document.
OpenAnswers(doc) ==
    {"none", "PermissionError"}
        \cup (IF doc = <<>> THEN {"IsADirectoryError", "PDFSyntaxError"} ELSE {})

IsAssigned(n) == \E k \in 1..Len(PAGES) : PAGES[k].page_num = n

\* A document of n pages: the assigned pages carry f's texts, the others
\* all carry o.
Document(n, f, o) == [i \in 1..n |-> IF IsAssigned(i) THEN f[i] ELSE o]

AssignedUpTo(n) == {i \in 1..n : IsAssigned(i)}

\* args.output: absent, empty, or a file name.
Outputs == {NoText, Text(<<>>), Text(<<"r","e","p","o","r","t",".","c","s","v">>)}

\* What the file system answers to write_csv: nothing in the way, the
\* directory refused, the file refused, the writing refused.  The drawn
\* rows are shorter than the buffer of the file, so a refused writing is
\* raised when the file is closed, after the header and a row of every
\* record were handed over.
FileSystem(m, o, w, after) == [makedirs |-> m, open |-> o, write |-> w, after |-> after]
FileSystems ==
    {FileSystem("none", "none", "none", 0),
     FileSystem("PermissionError", "none", "none", 0),
     FileSystem("none", "PermissionError", "none", 0),
     FileSystem("none", "none", "OSError", Len(PAGES) + 1)}

\* The memory of the machine: room for a text of Limb characters and no
\* more, or for every text the formatter builds.
Rooms == {<<1>> \o [i \in 1..LimbDigits |-> 0], MAX_EMAX}

\* The directory main writes to (line 206).
OUTPUT_DIR == <<"o","u","t","p","u","t">>

\* The values of the variables a run does not use.
IdleParse == value = <<>> /\ parsed = Ok(Zero)

IdlePage == lines = <<>> /\ text = NoText /\ company_name = <<>> /\ data = Ok(None)

IdleFormat == amount = Zero /\ formatted = Ok(<<>>)

IdleRun ==
    /\ file_exists = FALSE
    /\ output = NoText
    /\ pdf = <<>>
    /\ opened = FALSE
    /\ page_idx = 0
    /\ printed = <<>>
    /\ message = ""
    /\ exit_code = -1

NoResults ==
    /\ results = <<>>
    /\ warnings = <<>>
    /\ csv_rows = <<>>
    /\ output_path = <<>>
    /\ raised = "none"

Idle == IdleParse /\ IdlePage /\ IdleFormat

NotStarted ==
    /\ opened = FALSE
    /\ page_idx = 0
    /\ results = <<>>
    /\ warnings = <<>>
    /\ csv_rows = <<>>
    /\ output_path = <<>>
    /\ raised = "none"
    /\ printed = <<>>
    /\ message = ""
    /\ exit_code = -1

Init ==
    /\ pc = "main"
    /\ Idle
    /\ NotStarted
    /\ file_exists \in BOOLEAN
    /\ output \in Outputs
    /\ IF file_exists
       THEN \E n \in 0..MaxPages, o \in OtherPageTexts :
               \E f \in [AssignedUpTo(n) -> AssignedPageTexts] :
                  pdf = Document(n, f, o)
       ELSE pdf = <<>>

\* if not os.path.exists(pdf_path): print the error, return 1.
MainFileNotFound ==
    /\ pc = "main"
    /\ ~file_exists
    /\ message' = "Error: File not found"
    /\ exit_code' = 1
    /\ pc' = "done"
    /\ UNCHANGED <<value, parsed, lines, text, company_name, data, amount, formatted, file_exists,
                   output, output_path, raised, pdf, opened, page_idx, results, warnings, csv_rows, printed>>

\* data = extract_pdf(pdf_path): results = [], pdfplumber.open is called
\* (line 119); its exception leaves extract_pdf and main.
ExtractPdfOpen ==
    /\ pc = "main"
    /\ file_exists
    /\ opened' = TRUE
    /\ results' = <<>>
    /\ \E e \in OpenAnswers(pdf) :
          IF e = "none"
          THEN /\ page_idx' = 1
               /\ raised' = "none"
               /\ pc' = "extract_pdf"
          ELSE /\ page_idx' = page_idx
               /\ raised' = e
               /\ pc' = "raised"
    /\ UNCHANGED <<value, parsed, lines, text, company_name, data, amount, formatted, file_exists,
                   output, output_path, pdf, warnings, csv_rows, printed, message, exit_code>>

\* page_num > len(pdf.pages)
PageMissing(doc, page_num) == page_num > Len(doc)

\* pdf.pages[page_num - 1], the pages of the model being indexed from 1.
PageOf(doc, page_num) == doc[page_num]

\* if data:  (a CompanyData is a non-empty tuple)
Truthy(d) == ~d.is_none

Looping == pc = "extract_pdf" /\ page_idx <= Len(PAGES)

\* One pass of the loop: the page is not in the document.
PageNotInPdf ==
    /\ Looping
    /\ PageMissing(pdf, PAGES[page_idx].page_num)
    /\ warnings' = Append(warnings, [kind |-> "not in PDF",
                                     page_num |-> PAGES[page_idx].page_num])
    /\ page_idx' = page_idx + 1
    /\ UNCHANGED <<pc, value, parsed, lines, text, company_name, data, amount, formatted, file_exists,
                   output, output_path, raised, pdf, opened, results, csv_rows, printed, message, exit_code>>

\* One pass of the loop: the page gives a record, which is appended.
PageExtracted ==
    /\ Looping
    /\ ~PageMissing(pdf, PAGES[page_idx].page_num)
    /\ \E r \in {extract_page_data(PageOf(pdf, PAGES[page_idx].page_num),
                                    PAGES[page_idx].company)} :
          /\ r.err = "none"
          /\ Truthy(r.val)
          /\ results' = Append(results, r.val)
    /\ page_idx' = page_idx + 1
    /\ UNCHANGED <<pc, value, parsed, lines, text, company_name, data, amount, formatted, file_exists,
                   output, output_path, raised, pdf, opened, warnings, csv_rows, printed, message, exit_code>>

\* One pass of the loop: the page gives no record.
PageNoData ==
    /\ Looping
    /\ ~PageMissing(pdf, PAGES[page_idx].page_num)
    /\ \E r \in {extract_page_data(PageOf(pdf, PAGES[page_idx].page_num),
                                    PAGES[page_idx].company)} :
          /\ r.err = "none"
          /\ ~Truthy(r.val)
    /\ warnings' = Append(warnings, [kind |-> "Could not extract data",
                                     page_num |-> PAGES[page_idx].page_num])
    /\ page_idx' = page_idx + 1
    /\ UNCHANGED <<pc, value, parsed, lines, text, company_name, data, amount, formatted, file_exists,
                   output, output_path, raised, pdf, opened, results, csv_rows, printed, message, exit_code>>

\* One pass of the loop: extract_page_data raises (extract_text, or the
\* negation of parse_amount at line 83), and the exception leaves
\* extract_pdf and main with the warnings printed so far.
PageRaised ==
    /\ Looping
    /\ ~PageMissing(pdf, PAGES[page_idx].page_num)
    /\ \E r \in {extract_page_data(PageOf(pdf, PAGES[page_idx].page_num),
                                    PAGES[page_idx].company)} :
          /\ r.err # "none"
          /\ raised' = r.err
    /\ pc' = "raised"
    /\ UNCHANGED <<value, parsed, lines, text, company_name, data, amount, formatted, file_exists,
                   output, output_path, pdf, opened, page_idx, results, warnings, csv_rows, printed,
                   message, exit_code>>

Returned == pc = "extract_pdf" /\ page_idx > Len(PAGES)

\* if not data: print the message, return 1.
MainNoData ==
    /\ Returned
    /\ results = <<>>
    /\ message' = "No data was extracted."
    /\ exit_code' = 1
    /\ pc' = "done"
    /\ UNCHANGED <<value, parsed, lines, text, company_name, data, amount, formatted, file_exists,
                   output, output_path, raised, pdf, opened, page_idx, results, warnings, csv_rows, printed>>

\* if args.output:  (None and "" are false)
OutputGiven(o) == ~o.is_none /\ o.str # <<>>

\* output_path = os.path.join("output", args.output), write_csv(data,
\* output_path), the message and return 0; an exception of write_csv leaves
\* main.
MainWriteCsv ==
    /\ Returned
    /\ results # <<>>
    /\ OutputGiven(output)
    /\ output_path' = join(OUTPUT_DIR, output.str)
    /\ \E fs \in FileSystems, room \in Rooms :
          \E w \in {write_csv(results, join(OUTPUT_DIR, output.str), fs, room)} :
             IF w.err = "none"
             THEN /\ csv_rows' = w.val
                  /\ raised' = "none"
                  /\ message' = "Saved to"
                  /\ exit_code' = 0
                  /\ pc' = "done"
             ELSE /\ csv_rows' = w.val
                  /\ raised' = w.err
                  /\ message' = message
                  /\ exit_code' = exit_code
                  /\ pc' = "raised"
    /\ UNCHANGED <<value, parsed, lines, text, company_name, data, amount, formatted, file_exists,
                   output, pdf, opened, page_idx, results, warnings, printed>>

\* print_data(data), return 0; an exception of print_data leaves main.
MainPrintData ==
    /\ Returned
    /\ results # <<>>
    /\ ~OutputGiven(output)
    /\ \E room \in Rooms :
          \E p \in {print_data(results, room)} :
             IF p.err = "none"
             THEN /\ printed' = p.val
                  /\ raised' = "none"
                  /\ exit_code' = 0
                  /\ pc' = "done"
             ELSE /\ printed' = p.val
                  /\ raised' = p.err
                  /\ exit_code' = exit_code
                  /\ pc' = "raised"
    /\ UNCHANGED <<value, parsed, lines, text, company_name, data, amount, formatted, file_exists,
                   output, output_path, pdf, opened, page_idx, results, warnings, csv_rows, message>>

Next ==
    \/ MainFileNotFound
    \/ ExtractPdfOpen
    \/ PageNotInPdf
    \/ PageExtracted
    \/ PageNoData
    \/ PageRaised
    \/ MainNoData
    \/ MainWriteCsv
    \/ MainPrintData

Spec == Init /\ [][Next]_vars

(***************************************************************************)
(* parse_amount alone: a token is drawn and the parser is applied to it    *)
(***************************************************************************)

\* The number of pieces a drawn token is put together from, at most.
MaxPieces == 4

\* As many digits as the context's precision.
TWENTY_EIGHT_DIGITS ==
    <<"1","2","3","4","5","6","7","8","9","0","1","2","3","4","5","6","7","8","9","0","1","2","3","4","5","6","7","8">>

\* The pieces of the drawn tokens: digits (an Arabic-Indic one among them),
\* the separators and suffixes of the amount grammar, white space (a
\* no-break space too), a sign, and what else the decimal
\* module's constructor reads (NaN, sNaN, an exponent of six digits, an
\* exponent of ten).
TokenPieces == {
    <<"1">>, <<"0">>, <<",">>, <<".","0","0">>, <<".","5","0">>, CR, <<" ">>, <<" ">>, <<"\\u0661">>, <<"-">>,
    <<"N","a","N">>, <<"s">>, <<"x">>, <<"E","9","9","9","9","9","9">>,
    <<"E","9","9","9","9","9","9","9","9","9","9">>, <<"E","-","9","9","9","9","9","9","9","9","9","9">>,
    TWENTY_EIGHT_DIGITS }

InitParse ==
    /\ pc = "parse_amount"
    /\ \E n \in 0..MaxPieces : \E ps \in [1..n -> TokenPieces] : value = Flatten(ps)
    /\ parsed = Ok(Zero)
    /\ IdlePage
    /\ IdleFormat
    /\ IdleRun
    /\ NoResults

\* parsed = parse_amount(value)
ParseAmount ==
    /\ pc = "parse_amount"
    /\ parsed' = parse_amount(value)
    /\ pc' = "parsed"
    /\ UNCHANGED <<value, lines, text, company_name, data, amount, formatted, file_exists,
                   output, output_path, raised, pdf, opened, page_idx, results, warnings, csv_rows, printed,
                   message, exit_code>>

NextParse == ParseAmount

SpecParse == InitParse /\ [][NextParse]_vars

(***************************************************************************)
(* parse_amount and format_amount composed, as for a cell of write_csv:    *)
(* a token the pattern captures is parsed and the amount formatted          *)
(***************************************************************************)

\* match.group(2) of a match of LINE_PATTERN: AMOUNT_PATTERN matches the
\* whole of t.
IsCaptured(t) == t # <<>> /\ AMOUNT_PATTERN(t, 1) = Len(t) + 1

\* gross = match.group(2): the drawn tokens the pattern captures.
InitCompose ==
    /\ InitParse
    /\ IsCaptured(value)

\* format_amount(row.field), the field being parse_amount's result
FormatParsed ==
    /\ pc = "parsed"
    /\ parsed.err = "none"
    /\ amount' = parsed.val
    /\ \E room \in Rooms : formatted' = format_amount(parsed.val, room)
    /\ pc' = "composed"
    /\ UNCHANGED <<value, parsed, lines, text, company_name, data, file_exists,
                   output, output_path, raised, pdf, opened, page_idx, results, warnings, csv_rows, printed,
                   message, exit_code>>

NextCompose ==
    \/ ParseAmount
    \/ FormatParsed

SpecCompose == InitCompose /\ [][NextCompose]_vars

(***************************************************************************)
(* extract_page_data alone: a page text is put together from lines, the    *)
(* assembler is applied to it, and the pass of extract_pdf's loop ends     *)
(***************************************************************************)

\* The number of lines of a drawn page text, at most.
MaxLines == 2

\* How a drawn line starts: with one of the six labels.
LineStarts == {TRANSACTION_TYPES[k] : k \in 1..Len(TRANSACTION_TYPES)}

\* A label that does not start the line as the pattern wants it: indented,
\* in lower case, after other text.
MisplacedStarts ==
    {<<" ","R","E","W","R","I","T","E","S">>, <<"r","e","w","r","i","t","e","s">>,
     <<"x"," ","R","E","W","R","I","T","E","S">>}

\* How a drawn line goes on: what separates the start from the first token,
\* the first token, and the rest of the line.
LineRest(sep, token, tail) == [sep |-> sep, token |-> token, tail |-> tail]

LineRests == {
    LineRest(<<" ">>, <<"1",",","0","0","0",".","0","0">>, <<" ","1","5","0",".","0","0"," ","8","5","0",".","0","0">>),
    LineRest(<<" ">>, <<".","0","0">>, <<" ",".","0","0"," ",".","0","0">>),
    LineRest(<<" "," ">>, <<"2",",","0","0","0",".","0","0","C","R">>, <<>>),
    LineRest(<<"\n">>, <<"5","0","0",".","0","0">>, <<>>),
    LineRest(<<>>, <<"1",".","0","0">>, <<>>),
    LineRest(<<" ">>, <<"3",".","0">>, <<" ","x">>) }

Line(start, rest) ==
    [start |-> start, sep |-> rest.sep, token |-> rest.token, tail |-> rest.tail]

\* Every label with every rest; a misplaced label with the rest of a
\* generated line, three amounts after one space.
Lines ==
    {Line(s, r) : s \in LineStarts, r \in LineRests}
        \cup {Line(s, r) : s \in MisplacedStarts,
                           r \in {x \in LineRests : x.sep = <<" ">> /\ Len(x.token) = 8}}

LineText(l) == l.start \o l.sep \o l.token \o l.tail \o <<"\n">>

PageText(ls) == Flatten([i \in 1..Len(ls) |-> LineText(ls[i])])

\* The assignments whose label a drawn page is given: the first, the last.
AssignmentsTried == {1, Len(PAGES)}

InitPage ==
    /\ pc = "extract_page_data"
    /\ IdleParse
    /\ IdleFormat
    /\ file_exists = FALSE /\ output = NoText /\ pdf = <<>> /\ opened = FALSE
    /\ printed = <<>> /\ message = "" /\ exit_code = -1
    /\ page_idx \in AssignmentsTried
    /\ company_name = PAGES[page_idx].company
    /\ \/ lines = <<>> /\ text \in {NoText, Text(<<>>)}
       \/ \E n \in 1..MaxLines : \E ls \in [1..n -> Lines] :
             lines = ls /\ text = Text(PageText(ls))
    /\ data = Ok(None)
    /\ NoResults

\* data = extract_page_data(page, company_name)
ExtractPageData ==
    /\ pc = "extract_page_data"
    /\ data' = extract_page_data(text, company_name)
    /\ pc' = "extracted"
    /\ UNCHANGED <<value, parsed, lines, text, company_name, amount, formatted,
                   file_exists, output, output_path, raised, pdf, opened, page_idx, results, warnings,
                   csv_rows, printed, message, exit_code>>

\* if data: results.append(data)
RecordAppended ==
    /\ pc = "extracted"
    /\ data.err = "none"
    /\ Truthy(data.val)
    /\ results' = Append(results, data.val)
    /\ pc' = "passed"
    /\ UNCHANGED <<value, parsed, lines, text, company_name, data, amount, formatted,
                   file_exists, output, output_path, raised, pdf, opened, page_idx, warnings, csv_rows,
                   printed, message, exit_code>>

\* else: print the warning
NoRecordWarned ==
    /\ pc = "extracted"
    /\ data.err = "none"
    /\ ~Truthy(data.val)
    /\ warnings' = Append(warnings, [kind |-> "Could not extract data",
                                     page_num |-> PAGES[page_idx].page_num])
    /\ pc' = "passed"
    /\ UNCHANGED <<value, parsed, lines, text, company_name, data, amount, formatted,
                   file_exists, output, output_path, raised, pdf, opened, page_idx, results, csv_rows,
                   printed, message, exit_code>>

NextPage ==
    \/ ExtractPageData
    \/ RecordAppended
    \/ NoRecordWarned

SpecPage == InitPage /\ [][NextPage]_vars

(***************************************************************************)
(* format_amount alone: an amount is drawn and formatted                   *)
(***************************************************************************)

\* The number of fractional digits of a drawn amount, at most.
MaxFrac == 3

\* The integer digits and the fractional digits amounts are drawn from.
IntegerParts ==
    {<<0>>, <<1>>, <<9>>, <<1, 0>>, <<9, 9>>, <<1, 0, 0>>, <<5, 0, 0>>, <<2, 1, 1, 4, 9>>}
FractionDigits == {0, 1, 4, 5, 6, 9}

\* The exponents of the amounts drawn without a fraction.
WholeExponents == {0, 2}

\* Decimal((sign, int_part + frac, -len(frac)))
Fraction(sign, int_part, frac) ==
    Finite(sign, Coefficient(int_part \o frac), 0 - Len(frac))

InitFormat ==
    /\ pc = "format_amount"
    /\ IdleParse
    /\ IdlePage
    /\ IdleRun
    /\ NoResults
    /\ \E sign \in {0, 1}, int_part \in IntegerParts :
          \/ \E n \in 1..MaxFrac : \E frac \in [1..n -> FractionDigits] :
                amount = Fraction(sign, int_part, frac)
          \/ \E e \in WholeExponents : amount = Finite(sign, int_part, e)
    /\ formatted = Ok(<<>>)

\* formatted = format_amount(amount)
FormatAmount ==
    /\ pc = "format_amount"
    /\ \E room \in Rooms : formatted' = format_amount(amount, room)
    /\ pc' = "formatted"
    /\ UNCHANGED <<value, parsed, lines, text, company_name, data, amount, file_exists,
                   output, output_path, raised, pdf, opened, page_idx, results, warnings, csv_rows, printed,
                   message, exit_code>>

NextFormat == FormatAmount

SpecFormat == InitFormat /\ [][NextFormat]_vars

(***************************************************************************)
(* write_csv alone: a list of records is drawn and written                 *)
(***************************************************************************)

\* The number of records of a drawn list, at most.
MaxRecords == 3

\* Six amounts, no two alike: 21149.00, 0, 1500.5, -500.00, 1E+4, 12.345.
SampleAmounts == <<
    Finite(0, <<2, 1, 1, 4, 9, 0, 0>>, -2),
    Zero,
    Finite(0, <<1, 5, 0, 0, 5>>, -1),
    Finite(1, <<5, 0, 0, 0, 0>>, -2),
    Finite(0, <<1>>, 4),
    Finite(0, <<1, 2, 3, 4, 5>>, -3) >>

\* The amount at position k after the six are rotated by r.
Rotated(r, k) == SampleAmounts[((k + r - 1) % 6) + 1]

SampleRecord(c, r) ==
    CompanyData(c, Rotated(r, 1), Rotated(r, 2), Rotated(r, 3), Rotated(r, 4),
                Rotated(r, 5), Rotated(r, 6))

SampleCompanies == {PAGES[1].company, <<"T","e","s","t"," ","C","o","m","p","a","n","y">>}

SampleRecords == {SampleRecord(c, r) : c \in SampleCompanies, r \in 0..5}

\* The paths write_csv is given: a file name alone, a file in a directory.
OutputPaths == {<<"r","e","p","o","r","t",".","c","s","v">>,
                join(OUTPUT_DIR, <<"r","e","p","o","r","t",".","c","s","v">>)}

InitCsv ==
    /\ pc = "write_csv"
    /\ IdleParse
    /\ IdlePage
    /\ IdleFormat
    /\ IdleRun
    /\ \E n \in 0..MaxRecords : results \in [1..n -> SampleRecords]
    /\ output_path \in OutputPaths
    /\ raised = "none"
    /\ warnings = <<>>
    /\ csv_rows = <<>>

\* write_csv(results, output_path)
WriteCsv ==
    /\ pc = "write_csv"
    /\ \E fs \in FileSystems, room \in Rooms :
          \E w \in {write_csv(results, output_path, fs, room)} :
             IF w.err = "none"
             THEN /\ csv_rows' = w.val
                  /\ raised' = "none"
                  /\ pc' = "written"
             ELSE /\ csv_rows' = w.val
                  /\ raised' = w.err
                  /\ pc' = "raised"
    /\ UNCHANGED <<value, parsed, lines, text, company_name, data, amount, formatted,
                   file_exists, output, output_path, pdf, opened, page_idx, results, warnings,
                   printed, message, exit_code>>

NextCsv == WriteCsv

SpecCsv == InitCsv /\ [][NextCsv]_vars

(***************************************************************************)
(* The vocabulary of the properties                                        *)
(***************************************************************************)

\* The token without its CR suffix.
WithoutCR(t) == IF EndsWith(t, CR) THEN SubSeq(t, 1, Len(t) - 2) ELSE t

\* Digits with commas anywhere: at least one character, each a digit or a
\* comma.
IsGroupedDigits(s) ==
    s # <<>> /\ \A i \in 1..Len(s) : IsDigit(s[i]) \/ s[i] = ","

\* Grouped digits, a decimal point, two fractional digits.
IsAmountBody(b) ==
    /\ Len(b) >= 4
    /\ b[Len(b) - 2] = "."
    /\ IsDigit(b[Len(b) - 1])
    /\ IsDigit(b[Len(b)])
    /\ IsGroupedDigits(SubSeq(b, 1, Len(b) - 3))

\* A token of the amount grammar, apart from the zero sentinel.
IsAmountToken(t) == IsAmountBody(WithoutCR(t))

IsZeroSentinel(t) == t = <<".", "0", "0">>

\* The decimal number a token of the amount grammar writes: its digits, the
\* last two of them fractional, negative if and only if it ends with CR.
WrittenNumber(t) ==
    Finite(IF EndsWith(t, CR) THEN 1 ELSE 0,
           Coefficient(DigitsOf(Remove(Remove(WithoutCR(t), ","), "."))),
           -2)

IsZeroAmount(a) == a.kind \in {"F", "FBig"} /\ \A i \in 1..Len(a.digits) : a.digits[i] = 0

RECURSIVE TrailingZeros(_)
TrailingZeros(ds) ==
    IF Len(ds) > 1 /\ ds[Len(ds)] = 0
    THEN 1 + TrailingZeros(SubSeq(ds, 1, Len(ds) - 1))
    ELSE 0

\* The finite non-zero amount with the trailing zeros of its coefficient
\* moved into the exponent.
Reduced(a) ==
    [sign |-> a.sign,
     digits |-> SubSeq(a.digits, 1, Len(a.digits) - TrailingZeros(a.digits)),
     exp |-> a.exp + TrailingZeros(a.digits)]

\* Two finite amounts are the same number.
SameNumber(a, b) ==
    /\ a.kind = "F"
    /\ b.kind = "F"
    /\ \/ IsZeroAmount(a) /\ IsZeroAmount(b)
       \/ ~IsZeroAmount(a) /\ ~IsZeroAmount(b) /\ Reduced(a) = Reduced(b)

\* A numeral without its sign.
Unsigned10(s) == IF s # <<>> /\ s[1] \in {"+", "-"} THEN Tail(s) ELSE s

\* Digits, with at most one decimal point among them, and a digit at least.
IsPointNumeral(m, dot) ==
    IF dot = 0 THEN m # <<>> /\ AllDigits(m)
    ELSE /\ Len(m) > 1
         /\ AllDigits(SubSeq(m, 1, dot - 1))
         /\ AllDigits(Drop(m, dot + 1))

\* A numeral u without sign, with e the index of its exponent mark (or 0).
IsNumeralAt(u, e) ==
    IF e = 0 THEN IsPointNumeral(u, IndexFrom(u, ".", 1))
    ELSE /\ IsPointNumeral(SubSeq(u, 1, e - 1), IndexFrom(SubSeq(u, 1, e - 1), ".", 1))
         /\ Unsigned10(Drop(u, e + 1)) # <<>>
         /\ AllDigits(Unsigned10(Drop(u, e + 1)))

\* A base-10 decimal number: an optional sign, digits with an optional
\* decimal point, an optional exponent.
IsBase10Number(s) ==
    IsNumeralAt(Unsigned10(s), IndexFrom(UpperStr(Unsigned10(s)), "E", 1))

\* The token is not a base-10 decimal number once trimmed, stripped of a
\* trailing CR and of commas (white space left around the number is not
\* held against it).
IsMalformed(v) == ~IsBase10Number(Strip(Remove(WithoutCR(Strip(v)), ",")))

\* The line starts with one of the six labels.
HasLabel(l) == \E k \in 1..Len(TRANSACTION_TYPES) : l.start = TRANSACTION_TYPES[k]

\* A category line whose first token is the zero sentinel.
IsZeroLine(l) == HasLabel(l) /\ l.sep # <<>> /\ IsZeroSentinel(l.token)

\* A category line whose first token is of the amount grammar, the zero
\* sentinel apart.
IsAmountLine(l) == HasLabel(l) /\ l.sep # <<>> /\ IsAmountToken(l.token)

\* The indexes of the lines of category k that carry an amount (IsAmountLine)
\* or an amount or the zero sentinel (otherwise).
LinesOf(k, sentinel_too) ==
    {i \in 1..Len(lines) :
        /\ lines[i].start = TRANSACTION_TYPES[k]
        /\ IsAmountLine(lines[i]) \/ (sentinel_too /\ IsZeroLine(lines[i]))}

First(S) == CHOOSE i \in S : \A j \in S : i <= j

\* The amount field of category k.
Field(record, k) ==
    CASE k = 1 -> record.new_policies
      [] k = 2 -> record.rewrites
      [] k = 3 -> record.added_premium
      [] k = 4 -> record.return_premium
      [] k = 5 -> record.renewals
      [] k = 6 -> record.cancellations

IsRecord(d) == d.err = "none" /\ ~d.val.is_none

\* The walk of extract_pdf has gone through every assignment.
Walked == page_idx > Len(PAGES)

\* The page of assignment k is in the document and carries a matching
\* line: its text has a line LINE_PATTERN matches.
HasMatchingLine(k) ==
    /\ PAGES[k].page_num <= Len(pdf)
    /\ "raises" \notin DOMAIN pdf[PAGES[k].page_num]
    /\ ~pdf[PAGES[k].page_num].is_none
    /\ finditer(pdf[PAGES[k].page_num].str, 1) # <<>>

\* extract_pdf is over: the walk went through, or an exception has left it.
Over == Walked \/ pc = "raised"

\* Assignment k has ended: the loop has passed it, or its pass has raised.
Ended(k) == k < page_idx \/ (pc = "raised" /\ k = page_idx)

\* The position of a label in the configuration.
PositionOf(label) == CHOOSE k \in 1..Len(PAGES) : PAGES[k].company = label

IsConfigured(label) == \E k \in 1..Len(PAGES) : PAGES[k].company = label

WarnedAs(kind, n) ==
    \E i \in 1..Len(warnings) : warnings[i] = [kind |-> kind, page_num |-> n]

Recorded(label) == \E i \in 1..Len(results) : results[i].company = label

Count(b) == IF b THEN 1 ELSE 0

\* [-]digits.dd
IsTwoFractional(s, negative) ==
    /\ Len(Unsigned10(s)) >= 4
    /\ (s[1] = "-") = negative
    /\ s[1] # "+"
    /\ Unsigned10(s)[Len(Unsigned10(s)) - 2] = "."
    /\ AllDigits(SubSeq(Unsigned10(s), 1, Len(Unsigned10(s)) - 3))
    /\ AllDigits(Drop(Unsigned10(s), Len(Unsigned10(s)) - 1))

(***************************************************************************)
(* The properties                                                          *)
(***************************************************************************)

\* C1: for every page text in which a category label begins a line and is
\* followed by white space and the zero sentinel .00, and in which no
\* category line carries a non-zero amount, extract_page_data returns a
\* record whose six amounts are all zero.
C1_ZeroSentinelGivesRecord ==
    ( /\ pc = "extracted"
      /\ \E i \in 1..Len(lines) : IsZeroLine(lines[i])
      /\ \A i \in 1..Len(lines) :
            IsAmountLine(lines[i]) => IsZeroAmount(WrittenNumber(lines[i].token)) )
    => /\ IsRecord(data)
       /\ \A k \in 1..6 : IsZeroAmount(Field(data.val, k))

\* C2: for every page text in which the same category label begins two or
\* more lines, each followed by a token of the amount grammar or by the zero
\* sentinel, the record's field of that category is the parsed amount of the
\* first such line.
C2_FirstOccurrenceWins ==
    pc = "extracted" =>
        \A k \in 1..6 :
            Cardinality(LinesOf(k, TRUE)) >= 2 =>
                /\ IsRecord(data)
                /\ SameNumber(Field(data.val, k),
                              parse_amount(lines[First(LinesOf(k, TRUE))].token).val)

\* C3: parse_amount returns without raising for every token, and returns
\* zero for every token that is not a base-10 decimal number once trimmed
\* and stripped of a trailing CR and of commas.
C3_ParseAmountNeverFails ==
    pc = "parsed" =>
        /\ parsed.err = "none"
        /\ IsMalformed(value) => IsZeroAmount(parsed.val)

\* C4: for every token of the amount grammar, white space around it or not,
\* parse_amount returns exactly the number its digits write, negated if and
\* only if the token ends with CR; the token .00 returns zero.
C4_ParseAmountExact ==
    pc = "parsed" =>
        /\ IsAmountToken(Strip(value)) =>
              /\ parsed.err = "none"
              /\ SameNumber(parsed.val, WrittenNumber(Strip(value)))
        /\ IsZeroSentinel(Strip(value)) =>
              /\ parsed.err = "none"
              /\ IsZeroAmount(parsed.val)

\* C5: whenever the page text has a matching line for at least one of the
\* six categories, extract_page_data returns a record with the given label
\* in which the field of a category that matched is the amount of its first
\* matching line and the field of a category that did not match is zero.
C5_MissingCategoryDefaulting ==
    (pc = "extracted" /\ \E i \in 1..Len(lines) : IsAmountLine(lines[i]))
    => /\ IsRecord(data)
       /\ data.val.company = company_name
       /\ \A k \in 1..6 :
             IF LinesOf(k, FALSE) # {}
             THEN SameNumber(Field(data.val, k),
                             WrittenNumber(lines[First(LinesOf(k, FALSE))].token))
             ELSE Field(data.val, k) = Zero

\* A page on which one category matched gave a record with that amount and
\* a zero in another field.
C5_Witness ==
    /\ pc = "extracted"
    /\ Len(lines) = 2
    /\ LinesOf(2, FALSE) = {1}
    /\ ~IsAmountLine(lines[2])
    /\ IsRecord(data)
    /\ ~IsZeroAmount(data.val.rewrites)
    /\ data.val.new_policies = Zero

\* C6: extract_page_data returns no record, without raising, when the page
\* text is null or empty or has no matching category line, and the pass of
\* the walker's loop over that page leaves the list of records as it was.
C6_NoRecordWithoutMatch ==
    ( /\ pc \in {"extracted", "passed"}
      /\ \/ text.is_none
         \/ text.str = <<>>
         \/ \A i \in 1..Len(lines) : ~IsAmountLine(lines[i]) )
    => /\ data = Ok(None)
       /\ pc = "passed" => results = <<>> /\ Len(warnings) = 1

\* The pass over a page whose lines start with labels but match nowhere
\* ended with a warning and no record.
C6_Witness ==
    /\ pc = "passed"
    /\ Len(lines) = 2
    /\ HasLabel(lines[1])
    /\ \A i \in 1..Len(lines) : ~IsAmountLine(lines[i])
    /\ data = Ok(None)
    /\ results = <<>>
    /\ Len(warnings) = 1

\* C7: the records of extract_pdf are in the order of the configured
\* assignments, no label twice, each with the label configured for the page
\* its amounts were extracted from; for a document with a matching line on
\* all six assigned pages the result is six records, labelled Insurance
\* Division 4, 5, 7, 8, 10, 11 in this order.
C7_ConfiguredOrder ==
    /\ \A i \in 1..Len(results) :
          /\ IsConfigured(results[i].company)
          /\ HasMatchingLine(PositionOf(results[i].company))
          /\ Ok(results[i]) =
                extract_page_data(pdf[PAGES[PositionOf(results[i].company)].page_num],
                                  results[i].company)
    /\ \A i, j \in 1..Len(results) :
          i < j => PositionOf(results[i].company) < PositionOf(results[j].company)
    /\ (Over /\ \A k \in 1..Len(PAGES) : HasMatchingLine(k)) =>
          [i \in 1..Len(results) |-> results[i].company] =
             << <<"I","n","s","u","r","a","n","c","e"," ","D","i","v","i","s","i","o","n"," ","4">>,
                <<"I","n","s","u","r","a","n","c","e"," ","D","i","v","i","s","i","o","n"," ","5">>,
                <<"I","n","s","u","r","a","n","c","e"," ","D","i","v","i","s","i","o","n"," ","7">>,
                <<"I","n","s","u","r","a","n","c","e"," ","D","i","v","i","s","i","o","n"," ","8">>,
                <<"I","n","s","u","r","a","n","c","e"," ","D","i","v","i","s","i","o","n"," ","1","0">>,
                <<"I","n","s","u","r","a","n","c","e"," ","D","i","v","i","s","i","o","n"," ","1","1">> >>

\* C8: every assignment that has ended has exactly one of a "not in PDF"
\* warning (exactly when its page number exceeds the page count), a "could
\* not extract data" warning (exactly when the page exists and has no
\* matching line) and one record; an assignment not yet reached has none;
\* after the walk records and warnings are six together, and a document of
\* one page gives no record and six "not in PDF" warnings.
C8_OneOutcomePerAssignment ==
    /\ \A k \in 1..Len(PAGES) :
          IF Ended(k)
          THEN /\ Count(WarnedAs("not in PDF", PAGES[k].page_num))
                    + Count(WarnedAs("Could not extract data", PAGES[k].page_num))
                    + Count(Recorded(PAGES[k].company)) = 1
               /\ WarnedAs("not in PDF", PAGES[k].page_num)
                     <=> PAGES[k].page_num > Len(pdf)
               /\ WarnedAs("Could not extract data", PAGES[k].page_num)
                     <=> /\ PAGES[k].page_num <= Len(pdf)
                         /\ ~HasMatchingLine(k)
          ELSE /\ ~WarnedAs("not in PDF", PAGES[k].page_num)
               /\ ~WarnedAs("Could not extract data", PAGES[k].page_num)
               /\ ~Recorded(PAGES[k].company)
    /\ Walked => Len(results) + Len(warnings) = 6
    /\ (Walked /\ Len(pdf) = 1) =>
          /\ results = <<>>
          /\ Len(warnings) = 6
          /\ \A i \in 1..6 : warnings[i].kind = "not in PDF"

\* C9: format_amount returns .00 for every amount equal to zero, whatever
\* its sign and exponent, and for every other amount digits, a point and
\* two digits, with a leading minus exactly when the amount is negative;
\* the output has no C, no R and no comma.
C9_FormatAmount ==
    pc = "formatted" =>
        /\ formatted.err = "none"
        /\ IF IsZeroAmount(amount)
           THEN formatted.val = <<".", "0", "0">>
           ELSE IsTwoFractional(formatted.val, amount.sign = 1)
        /\ \A i \in 1..Len(formatted.val) : formatted.val[i] \notin {"C", "R", ","}

\* A negative zero with two fractional digits was formatted.
C9_Witness ==
    /\ pc = "formatted"
    /\ amount = Finite(1, <<0>>, -2)
    /\ formatted = Ok(<<".", "0", "0">>)

\* C10: for every list of n records write_csv writes n + 1 rows: the header
\* of the seven column names, then for each record in order its label and
\* format_amount of new_policies, rewrites, added_premium, return_premium,
\* renewals and cancellations, a negative amount with a leading minus and a
\* zero as .00.
C10_CsvRows ==
    pc \in {"written", "raised"} =>
        /\ Len(csv_rows) = Len(results) + 1
        /\ csv_rows[1] = << <<"C","o","m","p","a","n","y">>,
                            <<"N","e","w"," ","P","o","l","i","c","i","e","s">>,
                            <<"R","e","w","r","i","t","e","s">>,
                            <<"A","d","d","e","d"," ","P","r","e","m","i","u","m">>,
                            <<"R","e","t","u","r","n"," ","P","r","e","m","i","u","m">>,
                            <<"R","e","n","e","w","a","l","s">>,
                            <<"C","a","n","c","e","l","l","a","t","i","o","n","s">> >>
        /\ \A i \in 1..Len(results) :
              /\ Len(csv_rows[i + 1]) = 7
              /\ csv_rows[i + 1][1] = results[i].company
              /\ \A k \in 1..6 :
                    /\ \A room \in Rooms :
                          csv_rows[i + 1][k + 1] = format_amount(Field(results[i], k), room).val
                    /\ IsZeroAmount(Field(results[i], k))
                          => csv_rows[i + 1][k + 1] = <<".", "0", "0">>
                    /\ ~IsZeroAmount(Field(results[i], k))
                          => (csv_rows[i + 1][k + 1][1] = "-")
                                = (Field(results[i], k).sign = 1)

\* No assigned page of the document carries a matching line: the
\* extraction yields no record.
NoPageMatches == \A k \in 1..Len(PAGES) : ~HasMatchingLine(k)

NoOutput == csv_rows = <<>> /\ printed = <<>>

\* The run has ended as main does when the tabular file is asked for
\* (to_file) or not.
EndedAsFor(to_file) ==
    /\ ~file_exists => exit_code = 1 /\ ~opened /\ NoOutput
    /\ (file_exists /\ NoPageMatches) => exit_code = 1 /\ opened /\ NoOutput
    /\ (file_exists /\ ~NoPageMatches) =>
          /\ exit_code = 0
          /\ IF to_file
             THEN Len(csv_rows) = Len(results) + 1 /\ printed = <<>>
             ELSE printed # <<>> /\ csv_rows = <<>>

\* C11: main returns 1 without output when the file is missing (the
\* document never opened) or when no record was extracted; in every other
\* run it returns 0 after one rendering, the tabular file when the output
\* flag is given and the console report when it is absent.
C11_ExitCodeAndRendering ==
    IF pc \in {"done", "raised"}
    THEN EndedAsFor(~output.is_none)
    ELSE exit_code = -1 /\ NoOutput

RECURSIVE Pow10(_)
Pow10(n) == IF n = 0 THEN 1 ELSE 10 * Pow10(n - 1)

\* The integer n divided by d and rounded to the nearest integer, a tie
\* going to the even one.
NearestEven(n, d) ==
    (n \div d) + Count(2 * (n % d) > d \/ (2 * (n % d) = d /\ (n \div d) % 2 = 1))

\* The absolute value of the finite amount in hundredths, to the nearest.
Hundredths(a) ==
    IF a.exp >= -2
    THEN NatOf(a.digits) * Pow10(a.exp + 2)
    ELSE NearestEven(NatOf(a.digits), Pow10(0 - a.exp - 2))

\* The decimal digits of a natural number.
RECURSIVE NatChars(_)
NatChars(n) ==
    IF n < 10 THEN <<DigitChar(n)>> ELSE NatChars(n \div 10) \o <<DigitChar(n % 10)>>

\* h hundredths written with two fractional digits.
HundredthsChars(negative, h) ==
    (IF negative THEN <<"-">> ELSE <<>>)
        \o NatChars(h \div 100)
        \o <<".", DigitChar((h % 100) \div 10), DigitChar(h % 10)>>

\* C12: format_amount writes a non-zero amount rounded to the nearest
\* hundredth, a tie going to the even hundredth, and padded to two
\* fractional digits when it has fewer.
C12_RoundedToHundredths ==
    (pc = "formatted" /\ ~IsZeroAmount(amount)) =>
        formatted = Ok(HundredthsChars(amount.sign = 1, Hundredths(amount)))

\* The amount 100.456 was formatted as 100.46.
C12_Witness ==
    /\ pc = "formatted"
    /\ amount = Finite(0, <<1, 0, 0, 4, 5, 6>>, -3)
    /\ formatted = Ok(<<"1", "0", "0", ".", "4", "6">>)

\* The line has label k, spelled exactly, at its first character, followed
\* by white space and a token of the amount grammar.
IsWellFormedFor(l, k) ==
    /\ l.start = TRANSACTION_TYPES[k]
    /\ l.sep # <<>>
    /\ \A i \in 1..Len(l.sep) : IsSpace(l.sep[i])
    /\ IsAmountToken(l.token)

\* The line names category k: its start holds the letters of label k, in
\* whatever case and after whatever characters.
NamesCategory(l, k) ==
    \E from \in 1..Len(l.start) :
        /\ Len(l.start) - from + 1 = Len(TRANSACTION_TYPES[k])
        /\ \A i \in 1..Len(TRANSACTION_TYPES[k]) :
              \/ l.start[from + i - 1] = TRANSACTION_TYPES[k][i]
              \/ <<l.start[from + i - 1], TRANSACTION_TYPES[k][i]>> \in
                    {<<"r", "R">>, <<"e", "E">>, <<"w", "W">>, <<"i", "I">>,
                     <<"t", "T">>, <<"s", "S">>}

\* C13: a category gets an entry only from a line that has its label,
\* spelled exactly and in upper case, at the first character, followed by
\* white space and an amount token; a label after indentation or other
\* text, a label in another case and a label without white space and an
\* amount after it give no entry, and a page of such lines gives no record.
C13_ExactLabelAtLineStart ==
    pc = "extracted" =>
        /\ data.err = "none"
        /\ \A k \in 1..6 :
              (\A i \in 1..Len(lines) : ~IsWellFormedFor(lines[i], k))
                  => (data.val.is_none \/ Field(data.val, k) = Zero)
        /\ (\A i \in 1..Len(lines), k \in 1..6 : ~IsWellFormedFor(lines[i], k))
              => data.val = None

\* A page of an indented label and a label in lower case, each with white
\* space and an amount after it, gave no record.
C13_Witness ==
    /\ pc = "extracted"
    /\ Len(lines) = 2
    /\ \A i \in 1..2 :
          /\ NamesCategory(lines[i], 2)
          /\ lines[i].start # REWRITES
          /\ lines[i].sep # <<>>
          /\ IsAmountToken(lines[i].token)
    /\ lines[1].start[1] = " "
    /\ lines[2].start[1] = "r"
    /\ data = Ok(None)

\* The digits the token writes before its decimal point, without leading
\* zeros, and a 0 if there is none left.
WrittenInteger(t) ==
    DigitChars(Coefficient(DigitsOf(
        Remove(SubSeq(WithoutCR(t), 1, Len(WithoutCR(t)) - 3), ","))))

\* The token's value written with two fractional digits, with a leading
\* minus exactly when the token ends with CR.
WrittenCell(t) ==
    (IF EndsWith(t, CR) THEN <<"-">> ELSE <<>>)
        \o WrittenInteger(t)
        \o SubSeq(WithoutCR(t), Len(WithoutCR(t)) - 2, Len(WithoutCR(t)))

\* C14: for every token the line pattern can capture the decimal conversion
\* succeeds, and format_amount(parse_amount(token)) is .00 when all the
\* token's digits are zero and otherwise the token's value with two
\* fractional digits, unrounded, with a leading minus exactly when the token
\* ends with CR; the cell is never 0.00 or -0.00.
C14_CapturedTokenCell ==
    (pc \in {"parsed", "composed"} /\ IsAmountToken(value)) =>
        /\ DecimalOf(Remove(WithoutCR(value), ",")).ok
        /\ parsed.err = "none"
        /\ pc = "composed" =>
              /\ formatted.err = "none"
              /\ formatted.val =
                    IF IsZeroAmount(WrittenNumber(value))
                    THEN <<".", "0", "0">>
                    ELSE WrittenCell(value)
              /\ formatted.val \notin {<<"0", ".", "0", "0">>, <<"-", "0", ".", "0", "0">>}

====
